---- MODULE Spec2Model ----
(***************************************************************************)
(* A model of the request engine of src/src/api.rs (struct Api): the retry *)
(* loop of query_api_json / query_api_json_mut with the maxlag backoff,    *)
(* the parameter rules (format, maxlag), and the continuation pager        *)
(* ApiQuery of get_query_api_json_limit_iter.                              *)
(***************************************************************************)
EXTENDS Integers, Sequences, FiniteSets, TLC

(***************************************************************************)
(* Bounds of the model.                                                    *)
(***************************************************************************)
\* set_max_retry_attempts is called with values in 0..MaxRetry
MaxRetry == 2
\* the server answers at most MaxOverloads exchanges of one call with maxlag
MaxOverloads == 3
\* a page sequence is pulled for at most MaxPages page requests
MaxPages == 3
\* the ceilings passed to get_query_api_json_limit_iter are None or Some(0..MaxCeiling)
MaxCeiling == 2
\* the arrays handed to the merge functions hold an item of 1..MaxItem
MaxItem == 2
\* the values of the parameters to sign are a b and the strings of 1..MaxValueLen
\* characters 1
MaxValueLen == 2
MaxSigned == 2
MaxTicks == 1
MaxThreads == 2
MaxCalls == 2

(***************************************************************************)
(* Program constants.                                                      *)
(***************************************************************************)
DEFAULT_MAXLAG == 5
DEFAULT_MAX_RETRY_ATTEMPTS == 5

(***************************************************************************)
(* Option<T>                                                               *)
(***************************************************************************)
None == [some |-> FALSE]
Some(x) == [some |-> TRUE, v |-> x]

\* Option::or
OptOr(a, b) == IF a.some THEN a ELSE b

(***************************************************************************)
(* serde_json::Value, as tagged records.                                   *)
(***************************************************************************)
JNull == [t |-> "null"]
JStr(x) == [t |-> "str", s |-> x]
JNum(x) == [t |-> "num", n |-> x]
JArr(x) == [t |-> "arr", a |-> x]
JObj(x) == [t |-> "obj", o |-> x]
JBool(x) == [t |-> "bool", b |-> x]

\* the empty map
EmptyMap == [k \in {} |-> ""]

\* Value's Index<&str>: Null when the value is no object or has no such key
Idx(j, k) == IF j.t = "obj" /\ k \in DOMAIN j.o THEN j.o[k] ELSE JNull

as_str(j) == IF j.t = "str" THEN Some(j.s) ELSE None

\* Some only for a non-negative integer number
as_u64(j) == IF j.t = "num" /\ j.n >= 0 THEN Some(j.n) ELSE None

is_null(j) == j.t = "null"

Digit == <<"0", "1", "2", "3", "4", "5", "6", "7", "8", "9">>

RECURSIVE NatToStr(_)
\* u64::to_string
NatToStr(n) == IF n < 10 THEN Digit[n + 1]
               ELSE NatToStr(n \div 10) \o Digit[(n % 10) + 1]

\* Value::to_string of the values a continue object holds in this model:
\* the JSON text of the value (a string is quoted)
JsonText(j) == CASE j.t = "null" -> "null"
                 [] j.t = "num" -> IF j.n < 0 THEN "-" \o NatToStr(0 - j.n)
                                   ELSE NatToStr(j.n)
                 [] j.t = "str" -> "\"" \o j.s \o "\""
                 [] j.t = "arr" -> "[]"
                 [] j.t = "obj" -> "{}"

(***************************************************************************)
(* HashMap<String, String>                                                 *)
(***************************************************************************)
\* HashMap::insert
Insert(m, k, x) == [y \in DOMAIN m \cup {k} |-> IF y = k THEN x ELSE m[y]]

\* HashMap::extend: the entries of e override those of m
Extend(m, e) == [y \in DOMAIN m \cup DOMAIN e |-> IF y \in DOMAIN e THEN e[y] ELSE m[y]]

(***************************************************************************)
(* Merging of JSON values.                                                 *)
(***************************************************************************)
\* json_merge whose object case lets b's member replace a's
json_merge_shallow(a, b) ==
    IF a.t = "obj" /\ b.t = "obj"
    THEN JObj([k \in DOMAIN a.o \cup DOMAIN b.o |->
                  IF k \in DOMAIN b.o THEN b.o[k] ELSE a.o[k]])
    ELSE IF a.t = "arr" /\ b.t = "arr" THEN JArr(a.a \o b.a)
    ELSE b

RECURSIVE json_merge_dup(_, _)
\* json_merge with a.entry(k).or_insert(v.clone()) for or_insert(Value::Null)
json_merge_dup(a, b) ==
    IF a.t = "obj" /\ b.t = "obj"
    THEN JObj([k \in DOMAIN a.o \cup DOMAIN b.o |->
                  IF k \notin DOMAIN b.o THEN a.o[k]
                  ELSE json_merge_dup(IF k \in DOMAIN a.o THEN a.o[k] ELSE b.o[k],
                                      b.o[k])])
    ELSE IF a.t = "arr" /\ b.t = "arr" THEN JArr(a.a \o b.a)
    ELSE b

RECURSIVE json_merge(_, _)
\* fn json_merge: the value of *a after json_merge(a, b). For two objects,
\* every (k, v) of b is merged into a.entry(k).or_insert(Value::Null); the
\* members of a that b does not name stay
json_merge(a, b) ==
    IF a.t = "obj" /\ b.t = "obj"
    THEN JObj([k \in DOMAIN a.o \cup DOMAIN b.o |->
                  IF k \notin DOMAIN b.o THEN a.o[k]
                  ELSE json_merge(IF k \in DOMAIN a.o THEN a.o[k] ELSE JNull, b.o[k])])
    ELSE IF a.t = "arr" /\ b.t = "arr" THEN JArr(a.a \o b.a)
    ELSE b

\* Mergeable for Vec<T>: self.extend(other)
vec_merge(a, b) == a \o b

RECURSIVE merge_prepend(_, _)
\* Mergeable::merge putting the later array in front
merge_prepend(a, b) ==
    IF a.t = "obj" /\ b.t = "obj"
    THEN JObj([k \in DOMAIN a.o \cup DOMAIN b.o |->
                  IF k \notin DOMAIN b.o THEN a.o[k]
                  ELSE merge_prepend(IF k \in DOMAIN a.o THEN a.o[k] ELSE JNull, b.o[k])])
    ELSE IF a.t = "arr" /\ b.t = "arr" THEN JArr(vec_merge(b.a, a.a))
    ELSE b

RECURSIVE merge(_, _)
\* Mergeable for Value: the value of *self after self.merge(b)
merge(a, b) ==
    IF a.t = "obj" /\ b.t = "obj"
    THEN JObj([k \in DOMAIN a.o \cup DOMAIN b.o |->
                  IF k \notin DOMAIN b.o THEN a.o[k]
                  ELSE merge(IF k \in DOMAIN a.o THEN a.o[k] ELSE JNull, b.o[k])])
    ELSE IF a.t = "arr" /\ b.t = "arr" THEN JArr(vec_merge(a.a, b.a))
    ELSE b

(***************************************************************************)
(* The inputs: the callers' queries and methods, the server's answers.     *)
(***************************************************************************)
Q_plain == [action |-> "query"]
Q_fmt == [action |-> "query", format |-> "xml", maxlag |-> "77"]
Q_edit == [action |-> "edit", token |-> "tok"]
Q_editlag == [action |-> "edit", token |-> "tok", maxlag |-> "77"]

CallerQueries == {Q_plain, Q_fmt, Q_edit, Q_editlag}

Methods == {"GET", "POST", "PUT"}

\* the lag values the server reports
ServerLags == {1, 3}

\* the values set_maxlag is called with
MaxlagChoices == {None, Some(DEFAULT_MAXLAG), Some(2)}

MaxlagBody(l) == JObj("error" :> JObj(("code" :> JStr("maxlag")) @@ ("lag" :> JNum(l))))
MaxlagNoLag == JObj("error" :> JObj("code" :> JStr("maxlag")))
OtherError == JObj("error" :> JObj("code" :> JStr("badtoken")))
OkBody == JObj("query" :> JObj("search" :> JArr(<<JStr("a")>>)))

\* what the site answers the requests of login: the login token, tokens of
\* another type, and the result of action=login
LoginBodies ==
    {JObj("query" :> JObj("tokens" :> JObj("logintoken" :> JStr("lt")))),
     JObj("query" :> JObj("tokens" :> JObj("csrftoken" :> JStr("ct")))),
     JObj("login" :> JObj(("result" :> JStr("Success")) @@ ("lgusername" :> JStr("bot")))),
     JObj("login" :> JObj("result" :> JStr("Failed")))}

\* a lag that is no non-negative integer
MaxlagBadLag == MaxlagBody(-1)

OverloadBodies == {MaxlagBody(l) : l \in ServerLags} \cup {MaxlagNoLag, MaxlagBadLag}

\* the query of a page sequence
P_search == [action |-> "query", list |-> "search", sroffset |-> "0"]

PagerQueries == {P_search}

\* the values of a response's `continue` member
C_num == JObj(("continue" :> JStr("-||")) @@ ("sroffset" :> JNum(10)))
C_str == JObj(("continue" :> JStr("-||")) @@ ("srcontinue" :> JStr("b")) @@ ("list" :> JStr("more")))
C_text == JStr("x")

ContinueValues == {C_num, C_str, C_text}

\* the items of a page: none, one, two
Items0 == <<>>
Items1 == <<JStr("a")>>
Items2 == <<JStr("b"), JStr("c")>>

\* a page with the items xs and a `continue` member
Page(c, xs) == JObj(("query" :> JObj("search" :> JArr(xs))) @@ ("continue" :> c))

\* the bodies only a page request is answered with: pages that continue, of
\* one, two and no items, and two bodies that are no object
PageBodies == {Page(C_num, Items1), Page(C_str, Items2), Page(C_text, Items0)}
              \cup {JNull, JArr(<<>>)}

\* the maxlag bodies a page request is answered with
PageOverloadBodies == {MaxlagBody(3)}

\* what the transport hands back for one exchange: the send fails, or a
\* response arrives whose body cannot be read, or whose text is JSON
\* (json = TRUE, v the value it denotes) or is not
SendErr == [kind |-> "send_err"]
TextErr == [kind |-> "text_err"]
NotJson == [kind |-> "text", json |-> FALSE]
JsonText_(v) == [kind |-> "text", json |-> TRUE, v |-> v]

VARIABLES
    \* struct Api
    max_retry_attempts, maxlag_seconds, edit_delay_ms,
    \* one query_api_json / query_api_json_mut call
    pc, caller, mutcall, method, caller_params, params, attempts_left, cumulative,
    t, sleep_ms, result,
    \* history of the call in progress
    sent_log, received, sleeps,
    \* the edit delays the thread has slept in the call in progress
    delays,
    \* whether the previous call on this Api saw a maxlag response
    prev_overloaded,
    \* struct ApiQuery (params, values_remaining, continue_params) and the
    \* position of its user
    pg_pc, pg_params, values_remaining, continue_params,
    \* history of the page sequence: the `continue` members of the pages
    \* received, as the server sent them; the page requests made; the last
    \* item pulled
    cont_log, pg_requests, yielded,
    \* the ceiling the sequence was created with, and the items it has yielded
    pg_max, pages,
    \* get_query_api_json_limit: whether the sequence is consumed by its
    \* try_fold, the accumulator of the fold, and the value it returned
    folding, acc, fold_result,
    \* struct Api: the credentials of the signed mode, the cookies and the user
    oauth, cookie_jar, user,
    \* the system clock in seconds, and the number of Uuids generated so far
    clock, uuids,
    \* the lists of Set-Cookie header values the site answers with
    server_cookies,
    \* history: the nonces generated on this Api; the signed requests of the
    \* call in progress; and, of its latest exchange, the jar before it, the
    \* Cookie header sent and the Set-Cookie values received
    nonce_log, auth_log, last_exchange,
    \* the locals of a caller of json_merge / Mergeable::merge
    mg,
    \* the locals of a caller of sign_oauth_request
    sg,
    \* the threads that share one Api: the borrow each holds and its position
    bw,
    \* the locals of login
    lg,
    \* the locals of a caller of query_result_count / of Page::text
    pf

vars == <<max_retry_attempts, maxlag_seconds, edit_delay_ms, delays, user, lg, pf, pc, caller, mutcall, method,
          caller_params, params, attempts_left, cumulative, t, sleep_ms, result,
          sent_log, received, sleeps, prev_overloaded,
          pg_pc, pg_params, values_remaining, continue_params,
          cont_log, pg_requests, yielded, pg_max, pages, folding, acc, fold_result,
          oauth, cookie_jar, clock, uuids, server_cookies, nonce_log, auth_log,
          last_exchange,
          mg, sg, bw>>

pgvars == <<pg_pc, pg_params, values_remaining, continue_params,
            cont_log, pg_requests, yielded, pg_max, pages, folding, acc, fold_result>>

purevars == <<mg, sg, bw, lg, pf>>

wirevars == <<oauth, cookie_jar, clock, uuids, server_cookies, nonce_log, user>>

cfgvars == <<max_retry_attempts, maxlag_seconds, edit_delay_ms>>

\* is_edit_query without its test for the token
is_edit_query_post_only(p, m) == m = "POST"

(***************************************************************************)
(* fn is_edit_query                                                        *)
(***************************************************************************)
is_edit_query(p, m) == m = "POST" /\ "token" \in DOMAIN p

\* fn _set_maxlag_params, which leaves the cumulative lag out
set_maxlag_params_plain(p, m, cum) ==
    IF ~is_edit_query(p, m) THEN p
    ELSE IF maxlag_seconds.some
         THEN Insert(p, "maxlag", NatToStr(maxlag_seconds.v))
         ELSE p

(***************************************************************************)
(* fn set_cumulative_maxlag_params: the params after the call              *)
(***************************************************************************)
set_cumulative_maxlag_params(p, m, cum) ==
    IF ~is_edit_query(p, m) THEN p
    ELSE IF maxlag_seconds.some
         THEN Insert(p, "maxlag", NatToStr(cum + maxlag_seconds.v))
         ELSE p

\* check_maxlag falling back to DEFAULT_MAXLAG, not to self.maxlag_seconds
check_maxlag_default(v) ==
    IF as_str(Idx(Idx(v, "error"), "code")) = Some("maxlag")
    THEN OptOr(as_u64(Idx(Idx(v, "error"), "lag")), Some(DEFAULT_MAXLAG))
    ELSE None

\* check_maxlag taking every error object for the maxlag error
check_maxlag_any_error(v) ==
    IF ~is_null(Idx(v, "error"))
    THEN OptOr(as_u64(Idx(Idx(v, "error"), "lag")), maxlag_seconds)
    ELSE None

(***************************************************************************)
(* fn check_maxlag                                                         *)
(***************************************************************************)
check_maxlag(v) ==
    IF as_str(Idx(Idx(v, "error"), "code")) = Some("maxlag")
    THEN OptOr(as_u64(Idx(Idx(v, "error"), "lag")), maxlag_seconds)
    ELSE None

(***************************************************************************)
(* The first statements of query_api_json / query_api_json_mut: the local  *)
(* copy of the parameters with format forced, and the fresh budget.        *)
(***************************************************************************)
\* a format the caller gave is kept
InitialParams_keep(p) == IF "format" \in DOMAIN p THEN p ELSE Insert(p, "format", "json")

InitialParams(p) == Insert(p, "format", "json")

\* the budget kept from call to call, as fields of the Api would be
InitialBudget_carried(mra) == [attempts_left |-> attempts_left, cumulative |-> cumulative]

InitialBudget(mra) == [attempts_left |-> mra, cumulative |-> 0]

\* the error value of the exhausted budget: the message names
\* self.max_retry_attempts and cumulative
MaxAttemptsError(mra, cum) == [kind |-> "max_attempts", attempts |-> mra, cumulative |-> cum]

Ok(v) == [ok |-> TRUE, v |-> v]
Err(e) == [ok |-> FALSE, e |-> e]
NoResult == [ok |-> FALSE, e |-> [kind |-> "none"]]
NoText == [kind |-> "none"]
NoItem == [kind |-> "none"]

\* the closure of try_fold keeping the accumulator as the result on an error
fold_step_swallow(a, item) ==
    IF item.ok
    THEN [done |-> FALSE, acc |-> json_merge(a, item.v), ret |-> NoResult]
    ELSE [done |-> TRUE, acc |-> a, ret |-> Ok(a)]

\* one step of the try_fold of get_query_api_json_limit on the item next()
\* returned: `result?` returns an Err at once and the accumulator is dropped
\* with the closure; an Ok page is merged into the accumulator
fold_step(a, item) ==
    IF item.ok
    THEN [done |-> FALSE, acc |-> json_merge(a, item.v), ret |-> NoResult]
    ELSE [done |-> TRUE, acc |-> JNull, ret |-> Err(item.e)]

\* a loop that goes round again on an error instead of returning it
Propagate_retrying(e) == [pc |-> "Sending", result |-> NoResult]

\* the `?` on query_api_raw(..) and on serde_json::from_str(..): the error
\* leaves the loop and the function
Propagate(e) == [pc |-> "Fatal", result |-> Err(e)]

\* cumulative = lag_seconds in place of cumulative += lag_seconds
after_overload_assign(al, cum, lag) ==
    [attempts_left |-> al - 1, cumulative |-> lag, sleep_ms |-> 1000 * lag]

\* a retried maxlag response that sleeps the cumulative lag
after_overload_cumulative(al, cum, lag) ==
    [attempts_left |-> al - 1, cumulative |-> cum + lag, sleep_ms |-> 1000 * (cum + lag)]

\* a retried maxlag response that leaves attempts_left as it is
after_overload_free(al, cum, lag) ==
    [attempts_left |-> al, cumulative |-> cum + lag, sleep_ms |-> 1000 * lag]

\* the three statements of a retried maxlag response
after_overload(al, cum, lag) ==
    [attempts_left |-> al - 1, cumulative |-> cum + lag, sleep_ms |-> 1000 * lag]

Overloads(s) == Cardinality({i \in 1..Len(s) : s[i] \in {JsonText_(b) : b \in OverloadBodies}})

(***************************************************************************)
(* Signing. A string that is encoded, sorted or joined is the sequence of   *)
(* its characters.                                                         *)
(***************************************************************************)
\* the characters urlencoding::encode leaves as they are, of those in use
Unreserved ==
    {"-", ".", "0", "1", "2", "3", "4", "5", "6", "7", "8", "9",
     "A", "B", "C", "D", "E", "F",
     "G", "H", "M", "O", "P", "S", "T", "U", "_", "a", "b", "c", "d", "e", "f",
     "g", "h", "i", "j", "k", "l", "m", "n", "o", "p", "q", "r",
     "s", "t", "u", "v", "w", "x", "y", "z", "~"}

\* the escape of a character that is not unreserved: % and its code in hex
PctCode(ch) ==
    CASE ch = " " -> <<"%", "2", "0">>
      [] ch = "%" -> <<"%", "2", "5">>
      [] ch = "&" -> <<"%", "2", "6">>
      [] ch = "/" -> <<"%", "2", "F">>
      [] ch = ":" -> <<"%", "3", "A">>
      [] ch = "=" -> <<"%", "3", "D">>

RECURSIVE rawurlencode(_)
\* fn rawurlencode: urlencoding::encode
rawurlencode(str) ==
    IF str = <<>> THEN <<>>
    ELSE IF Len(str) = 1
    THEN (IF Head(str) \in Unreserved THEN <<Head(str)>> ELSE PctCode(Head(str)))
    ELSE LET mid == Len(str) \div 2
         IN rawurlencode(SubSeq(str, 1, mid)) \o rawurlencode(SubSeq(str, mid + 1, Len(str)))

\* the byte of a character of an encoded string
Ascii ==
    ("%" :> 37) @@ ("-" :> 45) @@ ("." :> 46) @@ ("0" :> 48) @@ ("1" :> 49) @@ ("2" :> 50)
    @@ ("3" :> 51) @@ ("4" :> 52) @@ ("5" :> 53) @@ ("6" :> 54) @@ ("7" :> 55) @@ ("8" :> 56)
    @@ ("9" :> 57) @@ ("A" :> 65) @@ ("B" :> 66) @@ ("C" :> 67) @@ ("D" :> 68) @@ ("E" :> 69)
    @@ ("F" :> 70) @@ ("G" :> 71) @@ ("H" :> 72) @@ ("M" :> 77) @@ ("O" :> 79) @@ ("P" :> 80) @@ ("S" :> 83) @@ ("T" :> 84) @@ ("U" :> 85)
    @@ ("_" :> 95) @@ ("a" :> 97) @@ ("b" :> 98) @@ ("c" :> 99) @@ ("d" :> 100) @@ ("e" :> 101)
    @@ ("f" :> 102) @@ ("g" :> 103) @@ ("h" :> 104) @@ ("i" :> 105) @@ ("j" :> 106) @@ ("k" :> 107)
    @@ ("l" :> 108) @@ ("m" :> 109) @@ ("n" :> 110) @@ ("o" :> 111) @@ ("p" :> 112) @@ ("q" :> 113)
    @@ ("r" :> 114) @@ ("s" :> 115) @@ ("t" :> 116) @@ ("u" :> 117) @@ ("v" :> 118) @@ ("w" :> 119)
    @@ ("x" :> 120) @@ ("y" :> 121) @@ ("z" :> 122) @@ ("~" :> 126)

RECURSIVE StrLess(_, _)
\* the order of String: byte by byte, a prefix first
StrLess(x, y) ==
    IF y = <<>> THEN FALSE
    ELSE IF x = <<>> THEN TRUE
    ELSE IF Head(x) = Head(y) THEN StrLess(Tail(x), Tail(y))
    ELSE Ascii[Head(x)] < Ascii[Head(y)]

RECURSIVE SortedSeq(_)
\* keys.sort() on the strings of the set S
SortedSeq(S) ==
    IF S = {} THEN <<>>
    ELSE LET m == CHOOSE x \in S : \A y \in S \ {x} : StrLess(x, y)
         IN <<m>> \o SortedSeq(S \ {m})

RECURSIVE Join(_, _)
\* [String]::join
Join(strs, sep) ==
    IF strs = <<>> THEN <<>>
    ELSE IF Len(strs) = 1 THEN strs[1]
    ELSE strs[1] \o sep \o Join(Tail(strs), sep)

RECURSIVE FilterMapPairs(_, _)
\* keys.iter().filter_map(|k| to_sign.get(k).map(|v| format!("{}={}", k, rawurlencode(v)))):
\* to_sign is asked for the key as encoded
FilterMapPairs(keys, to_sign) ==
    IF keys = <<>> THEN <<>>
    ELSE (IF Head(keys) \in DOMAIN to_sign
          THEN <<Head(keys) \o <<"=">> \o rawurlencode(to_sign[Head(keys)])>>
          ELSE <<>>)
             \o FilterMapPairs(Tail(keys), to_sign)

\* HMAC-SHA1 of the input under the key, as the pair that determines it
HmacSha1(key, input) == [hmac_key |-> key, input |-> input]

\* base64::encode of the bytes of the code
base64_encode(bytes) == [base64 |-> bytes]

\* Url::parse(api_url), host_str, port and path put together
url_string(url) ==
    url.scheme \o <<":", "/", "/">> \o url.host.v
        \o (IF url.port.some THEN <<":">> \o url.port.v ELSE <<>>)
        \o url.path

\* ret.join("&"): the parameter string, before it is encoded as a whole
canonical_params(to_sign) ==
    LET keys == SortedSeq({rawurlencode(k) : k \in DOMAIN to_sign})
        ret == FilterMapPairs(keys, to_sign)
    IN Join(ret, <<"&">>)

\* the string that is signed
signature_base(http_method, url, to_sign) ==
    rawurlencode(http_method) \o <<"&">> \o rawurlencode(url_string(url))
        \o <<"&">> \o rawurlencode(canonical_params(to_sign))

(***************************************************************************)
(* fn sign_oauth_request                                                   *)
(***************************************************************************)
sign_oauth_request(http_method, api_url, to_sign, oauth_params) ==
    IF ~api_url.parses THEN Err([kind |-> "url_parse"])
    ELSE IF ~api_url.host.some THEN Err([kind |-> "url.host_str is None"])
    ELSE IF ~(oauth_params.g_consumer_secret.some /\ oauth_params.g_token_secret.some)
    THEN Err([kind |-> "g_consumer_secret or g_token_secret not set"])
    ELSE Ok(base64_encode(
             HmacSha1(rawurlencode(oauth_params.g_consumer_secret.v) \o <<"&">>
                          \o rawurlencode(oauth_params.g_token_secret.v),
                      signature_base(http_method, api_url, to_sign))))

(***************************************************************************)
(* fn oauth_request_builder and fn request_builder                         *)
(***************************************************************************)
\* the characters of a string
Chars(str) == [i \in 1..Len(str) |-> SubSeq(str, i, i)]

\* self.api_url
ApiUrl ==
    [parses |-> TRUE, scheme |-> Chars("https"), host |-> Some(Chars("h.org")),
     port |-> None, path |-> Chars("/w/api.php")]

\* SystemTime::now() at construction, in seconds since UNIX_EPOCH
Epoch == 7

\* a nonce that is the same for every request
Nonce_fixed(n) == Chars("0")

\* Uuid::new_v4().to_simple().to_string() of the n-th Uuid generated: no two
\* generated Uuids are equal
Nonce(n) == Chars(NatToStr(n))

\* the oauth_* headers before the signature, in the order of their insertion
oauth_headers(o, nonce, timestamp) ==
    <<[key |-> "oauth_consumer_key", value |-> o.g_consumer_key.v],
      [key |-> "oauth_token", value |-> o.g_token_key.v],
      [key |-> "oauth_version", value |-> Chars("1.0")],
      [key |-> "oauth_nonce", value |-> nonce],
      [key |-> "oauth_timestamp", value |-> timestamp],
      [key |-> "oauth_signature_method", value |-> Chars("HMAC-SHA1")]>>

\* to_sign given the caller's parameters only
to_sign_of_caller(p, headers) ==
    LET hk == {headers[i].key : i \in 1..Len(headers)} \ {"oauth_signature"}
        keys == DOMAIN caller_params \cup hk
    IN [k \in {Chars(x) : x \in keys} |->
           LET x == CHOOSE y \in keys : Chars(y) = k IN
           IF x \in hk
           THEN headers[CHOOSE i \in 1..Len(headers) : headers[i].key = x].value
           ELSE Chars(caller_params[x])]

\* let mut to_sign = params.clone() and the loop over the headers: every
\* header but oauth_signature is inserted
to_sign_of(p, headers) ==
    LET hk == {headers[i].key : i \in 1..Len(headers)} \ {"oauth_signature"}
        keys == DOMAIN p \cup hk
    IN [k \in {Chars(x) : x \in keys} |->
           LET x == CHOOSE y \in keys : Chars(y) = k IN
           IF x \in hk
           THEN headers[CHOOSE i \in 1..Len(headers) : headers[i].key = x].value
           ELSE Chars(p[x])]

\* rawurlencode of the signature, which is kept as the pair that determines it
rawurlencode_signature(sig) == [rawurlencode |-> sig]

\* the Authorization header: OAuth and the parts key="value" of the headers,
\* keys and values encoded, joined by ", "
authorization(headers, sig) ==
    [scheme |-> "OAuth",
     parts |-> [i \in 1..(Len(headers) + 1) |->
                   IF i <= Len(headers)
                   THEN [key |-> rawurlencode(Chars(headers[i].key)),
                         value |-> rawurlencode(headers[i].value)]
                   ELSE [key |-> rawurlencode(Chars("oauth_signature")),
                         value |-> rawurlencode_signature(sig)]]]

\* the outcomes of building a request
Built(auth, to_sign) == [kind |-> "ok", auth |-> auth, to_sign |-> to_sign]
BuildErr(e) == [kind |-> "err", e |-> e]
BuildPanic == [kind |-> "panic"]

\* fn oauth_request_builder, with the clock reading now and the n-th Uuid:
\* unwrap panics on a key that is None, the signer's error is returned, and
\* the match on the method panics on any method but GET and POST
oauth_request_builder(m, p, o, now, n) ==
    IF ~o.some THEN BuildErr([kind |-> "oauth is None"])
    ELSE IF ~o.v.g_consumer_key.some \/ ~o.v.g_token_key.some THEN BuildPanic
    ELSE LET headers == oauth_headers(o.v, Nonce(n), Chars(NatToStr(now)))
             to_sign == to_sign_of(p, headers)
             sig == sign_oauth_request(Chars(m), ApiUrl, to_sign, o.v)
         IN IF ~sig.ok THEN BuildErr(sig.e)
            ELSE IF m \notin {"GET", "POST"} THEN BuildPanic
            ELSE Built(Some(authorization(headers, sig.v)), to_sign)

\* fn request_builder
request_builder(m, p, o, now, n) ==
    IF o.some THEN oauth_request_builder(m, p, o, now, n)
    ELSE IF m \in {"GET", "POST"} THEN Built(None, EmptyMap)
    ELSE BuildErr([kind |-> "unsupported_method"])

(***************************************************************************)
(* The cookies: Cookie::parse, CookieJar::add, Cookie's Display,           *)
(* set_cookies_from_response and cookies_to_string                         *)
(***************************************************************************)
\* the first position of the character ch in str, or 0
IndexOf(str, ch) ==
    IF \E i \in 1..Len(str) : SubSeq(str, i, i) = ch
    THEN CHOOSE i \in 1..Len(str) :
             /\ SubSeq(str, i, i) = ch
             /\ \A j \in 1..(i - 1) : SubSeq(str, j, j) # ch
    ELSE 0

RECURSIVE Split(_, _)
\* str::split(ch)
Split(str, ch) ==
    LET i == IndexOf(str, ch) IN
    IF i = 0 THEN <<str>>
    ELSE <<SubSeq(str, 1, i - 1)>> \o Split(SubSeq(str, i + 1, Len(str)), ch)

RECURSIVE Trim(_)
\* str::trim
Trim(str) ==
    IF str = "" THEN str
    ELSE IF SubSeq(str, 1, 1) = " " THEN Trim(SubSeq(str, 2, Len(str)))
    ELSE IF SubSeq(str, Len(str), Len(str)) = " " THEN Trim(SubSeq(str, 1, Len(str) - 1))
    ELSE str

\* the attribute of the given name among the parts after the pair: its value,
\* if any
Attribute(parts, name) ==
    LET hits == {i \in 2..Len(parts) :
                    Trim(Split(parts[i], "=")[1]) = name}
    IN IF hits = {} THEN None
       ELSE LET i == CHOOSE j \in hits : \A k \in hits : k <= j
                kv == Split(parts[i], "=")
            IN Some(IF Len(kv) >= 2 THEN Trim(kv[2]) ELSE "")

\* Cookie::parse: the pair name=value up to the first ; and the attributes
\* after it; a string without = or with an empty name is an error
CookieParse(str) ==
    LET parts == Split(str, ";")
        i == IndexOf(parts[1], "=")
    IN IF i = 0 THEN Err([kind |-> "MissingPair"])
       ELSE LET name == Trim(SubSeq(parts[1], 1, i - 1))
                value == Trim(SubSeq(parts[1], i + 1, Len(parts[1])))
            IN IF name = "" THEN Err([kind |-> "EmptyName"])
               ELSE Ok([name |-> name, value |-> value,
                        http_only |-> Attribute(parts, "HttpOnly").some,
                        path |-> Attribute(parts, "Path")])

\* impl Display for Cookie: the pair, then the attributes the cookie has
CookieToString(c) ==
    c.name \o "=" \o c.value
        \o (IF c.http_only THEN "; HttpOnly" ELSE "")
        \o (IF c.path.some THEN "; Path=" \o c.path.v ELSE "")

\* CookieJar::add: the cookie replaces the one of the same name
CookieJarAdd(jar, c) == Insert(jar, c.name, c)

\* the body of the loop of set_cookies_from_response for one header value v:
\* a value that to_str or Cookie::parse refuses is passed over
capture_one(jar, v) ==
    IF ~v.ascii THEN jar
    ELSE IF CookieParse(v.s).ok THEN CookieJarAdd(jar, CookieParse(v.s).v)
    ELSE jar

RECURSIVE set_cookies_from_response_first_error(_, _)
\* set_cookies_from_response giving up at the first value it cannot parse
set_cookies_from_response_first_error(jar, hs) ==
    IF hs = <<>> THEN jar
    ELSE IF ~Head(hs).ascii \/ ~CookieParse(Head(hs).s).ok THEN jar
    ELSE set_cookies_from_response_first_error(capture_one(jar, Head(hs)), Tail(hs))

RECURSIVE set_cookies_from_response(_, _)
\* fn set_cookies_from_response: the Set-Cookie values hs of the response in
\* their order
set_cookies_from_response(jar, hs) ==
    IF hs = <<>> THEN jar
    ELSE set_cookies_from_response(capture_one(jar, Head(hs)), Tail(hs))

RECURSIVE JoinStr(_, _)
\* [String]::join on strings
JoinStr(strs, sep) ==
    IF strs = <<>> THEN ""
    ELSE IF Len(strs) = 1 THEN strs[1]
    ELSE strs[1] \o sep \o JoinStr(Tail(strs), sep)

\* the orders in which cookie_jar.iter() may yield the cookies of the jar
JarOrders(jar) ==
    {o \in [1..Cardinality(DOMAIN jar) -> DOMAIN jar] :
        \A i, j \in DOMAIN o : i # j => o[i] # o[j]}

\* fn cookies_to_string, the jar iterated in the order given
cookies_to_string(jar, order) ==
    JoinStr([i \in DOMAIN order |-> CookieToString(jar[order[i]])], "; ")

\* no exchange of the call yet
NoExchange == [kind |-> "none"]

\* no call of the merge functions, or of sign_oauth_request, in progress
NoMerge == [pc |-> "none"]
NoSign == [pc |-> "none"]

\* no threads
NoBorrow == [pc |-> "none"]

\* no call of query_result_count, or of Page::text, in progress
NoPure == [pc |-> "none"]

\* no login in progress
NoLogin == [pc |-> "none"]

\* User::new(): nobody is logged in
NoUser == [logged_in |-> FALSE, lgusername |-> ""]

(***************************************************************************)
(* Init: the Api as new_from_builder leaves it, no call in progress.       *)
(***************************************************************************)
InitApi ==
    /\ maxlag_seconds = Some(DEFAULT_MAXLAG)
    /\ pc = "Idle"
    /\ caller = "none"
    /\ mutcall = FALSE
    /\ method = "GET"
    /\ caller_params = EmptyMap
    /\ params = EmptyMap
    /\ attempts_left = 0
    /\ cumulative = 0
    /\ t = NoText
    /\ sleep_ms = 0
    /\ result = NoResult
    /\ sent_log = <<>>
    /\ received = <<>>
    /\ sleeps = <<>>
    /\ prev_overloaded = FALSE
    /\ pg_pc = "none"
    /\ pg_params = EmptyMap
    /\ values_remaining = None
    /\ continue_params = JNull
    /\ cont_log = <<>>
    /\ pg_requests = 0
    /\ yielded = NoItem
    /\ pg_max = None
    /\ pages = <<>>
    /\ folding = FALSE
    /\ acc = JNull
    /\ fold_result = NoResult
    /\ cookie_jar = EmptyMap
    /\ clock = Epoch
    /\ uuids = 0
    /\ nonce_log = <<>>
    /\ auth_log = <<>>
    /\ last_exchange = NoExchange
    /\ edit_delay_ms = None
    /\ delays = <<>>
    /\ user = NoUser
    /\ lg = NoLogin

Init ==
    /\ InitApi
    /\ max_retry_attempts = DEFAULT_MAX_RETRY_ATTEMPTS
    /\ oauth = None
    /\ server_cookies = {<<>>}
    /\ mg = NoMerge
    /\ sg = NoSign
    /\ bw = NoBorrow
    /\ pf = NoPure

callvars == <<pc, caller, mutcall, method, caller_params, params, attempts_left,
              cumulative, t, sleep_ms, result, sent_log, received, sleeps, prev_overloaded,
              auth_log, last_exchange, delays>>

\* fn set_max_retry_attempts
SetMaxRetryAttempts ==
    /\ pc = "Idle"
    /\ pg_pc = "none"
    /\ lg.pc = "none"
    /\ \E n \in 0..MaxRetry : max_retry_attempts' = n
    /\ UNCHANGED <<maxlag_seconds, edit_delay_ms, callvars, pgvars, purevars, wirevars>>

\* fn set_maxlag
SetMaxlag ==
    /\ pc = "Idle"
    /\ pg_pc = "none"
    /\ lg.pc = "none"
    /\ \E m \in MaxlagChoices : maxlag_seconds' = m
    /\ UNCHANGED <<max_retry_attempts, edit_delay_ms, callvars, pgvars, purevars, wirevars>>

\* entry of query_api_json (mut_ = FALSE) / query_api_json_mut (mut_ = TRUE),
\* up to the loop
Enter(who, mut_, p, m) ==
    /\ caller' = who
    /\ mutcall' = mut_
    /\ method' = m
    /\ caller_params' = p
    /\ params' = InitialParams(p)
    /\ attempts_left' = InitialBudget(max_retry_attempts).attempts_left
    /\ cumulative' = InitialBudget(max_retry_attempts).cumulative
    /\ t' = NoText
    /\ sleep_ms' = 0
    /\ result' = NoResult
    /\ sent_log' = <<>>
    /\ received' = <<>>
    /\ sleeps' = <<>>
    /\ auth_log' = <<>>
    /\ last_exchange' = NoExchange
    /\ delays' = <<>>
    /\ pc' = "Sending"

\* a caller calls query_api_json(params, method)
StartCall ==
    /\ pc = "Idle"
    /\ pg_pc = "none"
    /\ lg.pc = "none"
    /\ \E p \in CallerQueries, m \in Methods : Enter("direct", FALSE, p, m)
    /\ UNCHANGED <<cfgvars, prev_overloaded, pgvars, purevars, wirevars>>

\* a caller calls post_query_api_json_mut(params)
StartCallMut ==
    /\ pc = "Idle"
    /\ pg_pc = "none"
    /\ lg.pc = "none"
    /\ \E p \in CallerQueries : Enter("direct", TRUE, p, "POST")
    /\ UNCHANGED <<cfgvars, prev_overloaded, pgvars, purevars, wirevars>>

\* what the server may answer to the next exchange of the call
ServerAnswers ==
    {SendErr, TextErr, NotJson, JsonText_(OkBody), JsonText_(OtherError)}
    \cup (IF Overloads(received) < MaxOverloads
          THEN {JsonText_(b) : b \in IF caller \in {"pager", "login"} THEN PageOverloadBodies
                                     ELSE OverloadBodies}
          ELSE {})
    \cup (IF caller = "pager" THEN {JsonText_(b) : b \in PageBodies} ELSE {})
    \cup (IF caller = "login" THEN {JsonText_(b) : b \in LoginBodies} ELSE {})

\* query_raw_mut capturing only while the jar is empty
capture_once(is_mut, jar, hs) ==
    IF is_mut /\ jar = EmptyMap THEN set_cookies_from_response(jar, hs) ELSE jar

\* query_raw capturing the cookies as query_raw_mut does
capture_always(is_mut, jar, hs) == set_cookies_from_response(jar, hs)

\* query_raw_mut starting from an empty jar
capture_fresh(is_mut, jar, hs) ==
    IF is_mut THEN set_cookies_from_response(EmptyMap, hs) ELSE jar

\* the jar after query_raw_mut (is_mut) / query_raw has a response with the
\* Set-Cookie values hs
capture(is_mut, jar, hs) == IF is_mut THEN set_cookies_from_response(jar, hs) ELSE jar

\* enact_edit_delay sleeping after every request when a delay is set
enact_edit_delay_always(p, m) ==
    IF edit_delay_ms.some THEN <<edit_delay_ms.v>> ELSE <<>>

\* fn enact_edit_delay: the milliseconds it sleeps, if it does
enact_edit_delay(p, m) ==
    IF ~is_edit_query(p, m) THEN <<>>
    ELSE IF edit_delay_ms.some THEN <<edit_delay_ms.v>> ELSE <<>>

\* query_raw_response calling enact_edit_delay before the `?` on send()
after_send_any(sent, p, m) == enact_edit_delay(p, m)

\* query_raw_response after req.send(): `?` returns when the send failed,
\* enact_edit_delay is called when it did not
after_send(sent, p, m) == IF sent THEN enact_edit_delay(p, m) ELSE <<>>

\* one turn of the loop up to the response text: set_cumulative_maxlag_params,
\* then query_api_raw[_mut] -> query_raw[_mut] -> query_raw_response
\* (request_builder, send, enact_edit_delay), set_cookies_from_response and
\* resp.text()
Send ==
    /\ pc = "Sending"
    /\ oauth.some => uuids < MaxSigned
    /\ \E p \in {set_cumulative_maxlag_params(params, method, cumulative)} :
       \E rb \in {request_builder(method, p, oauth, clock, uuids)} :
       /\ params' = p
       /\ uuids' = IF oauth.some THEN uuids + 1 ELSE uuids
       /\ nonce_log' = IF oauth.some THEN Append(nonce_log, Nonce(uuids)) ELSE nonce_log
       /\ auth_log' = IF rb.kind = "ok" /\ rb.auth.some
                      THEN Append(auth_log,
                                  [authorization |-> rb.auth.v,
                                   to_sign |-> rb.to_sign,
                                   params |-> p,
                                   nonce |-> Nonce(uuids),
                                   timestamp |-> Chars(NatToStr(clock))])
                      ELSE auth_log
       /\ CASE rb.kind = "err" ->
               \* request_builder returns the error: nothing is sent
               /\ result' = Err(rb.e)
               /\ pc' = "Fatal"
               /\ UNCHANGED <<t, sent_log, received, cookie_jar, last_exchange, delays>>
            [] rb.kind = "panic" ->
               \* the thread unwinds out of the call: nothing is sent
               /\ pc' = "Panicked"
               /\ UNCHANGED <<result, t, sent_log, received, cookie_jar, last_exchange,
                              delays>>
            [] rb.kind = "ok" ->
               \E r \in ServerAnswers, hs \in server_cookies, order \in JarOrders(cookie_jar) :
               /\ sent_log' = Append(sent_log, [params |-> p, method |-> method])
               /\ received' = Append(received, r)
               /\ last_exchange' =
                      [kind |-> "exchange", jar |-> cookie_jar,
                       cookie |-> cookies_to_string(cookie_jar, order),
                       set_cookie |-> IF r.kind = "send_err" THEN <<>> ELSE hs]
               /\ delays' = delays \o
                      [i \in 1..Len(after_send(r.kind # "send_err", p, method)) |->
                          [ms |-> after_send(r.kind # "send_err", p, method)[i],
                           exchange |-> Len(sent_log) + 1,
                           sleeps |-> Len(sleeps)]]
               /\ IF r.kind = "send_err"
                  THEN \* req.send()? : there is no response
                       /\ result' = Propagate([kind |-> "transport"]).result
                       /\ pc' = Propagate([kind |-> "transport"]).pc
                       /\ t' = NoText
                       /\ UNCHANGED cookie_jar
                  ELSE /\ cookie_jar' = capture(mutcall, cookie_jar, hs)
                       /\ IF r.kind = "text_err"
                          THEN /\ result' = Propagate([kind |-> "transport"]).result
                               /\ pc' = Propagate([kind |-> "transport"]).pc
                               /\ t' = NoText
                          ELSE /\ t' = r
                               /\ pc' = "Parsing"
                               /\ UNCHANGED result
    /\ UNCHANGED <<cfgvars, caller, mutcall, method, caller_params, attempts_left,
                   cumulative, sleep_ms, sleeps, prev_overloaded, pgvars, purevars,
                   oauth, clock, server_cookies, user>>

\* the rest of the turn: serde_json::from_str, check_maxlag and the branch
Parse ==
    /\ pc = "Parsing"
    /\ t' = NoText
    /\ IF ~t.json
       THEN /\ result' = Propagate([kind |-> "parse"]).result
            /\ pc' = Propagate([kind |-> "parse"]).pc
            /\ UNCHANGED <<attempts_left, cumulative, sleep_ms>>
       ELSE LET lag == check_maxlag(t.v) IN
            IF lag.some
            THEN IF attempts_left = 0
                 THEN /\ result' = Err(MaxAttemptsError(max_retry_attempts, cumulative))
                      /\ pc' = "Fatal"
                      /\ UNCHANGED <<attempts_left, cumulative, sleep_ms>>
                 ELSE /\ attempts_left' = after_overload(attempts_left, cumulative, lag.v).attempts_left
                      /\ cumulative' = after_overload(attempts_left, cumulative, lag.v).cumulative
                      /\ sleep_ms' = after_overload(attempts_left, cumulative, lag.v).sleep_ms
                      /\ pc' = "Backoff"
                      /\ UNCHANGED result
            ELSE /\ result' = Ok(t.v)
                 /\ pc' = "Success"
                 /\ UNCHANGED <<attempts_left, cumulative, sleep_ms>>
    /\ UNCHANGED <<cfgvars, caller, mutcall, method, caller_params, params,
                   sent_log, received, sleeps, delays, prev_overloaded, auth_log,
                   last_exchange, pgvars, purevars, wirevars>>

\* a loop that keeps its budget in the field of the Api
Sleep_spending ==
    /\ pc = "Backoff"
    /\ sleeps' = Append(sleeps, sleep_ms)
    /\ sleep_ms' = 0
    /\ pc' = "Sending"
    /\ max_retry_attempts' = attempts_left
    /\ UNCHANGED <<maxlag_seconds, edit_delay_ms, caller, mutcall, method, caller_params,
                   params, attempts_left, cumulative, t, result, sent_log, received,
                   delays, prev_overloaded, auth_log, last_exchange, pgvars, purevars,
                   wirevars>>

\* thread::sleep returns and the loop starts its next turn
Sleep ==
    /\ pc = "Backoff"
    /\ sleeps' = Append(sleeps, sleep_ms)
    /\ sleep_ms' = 0
    /\ pc' = "Sending"
    /\ UNCHANGED <<cfgvars, caller, mutcall, method, caller_params, params,
                   attempts_left, cumulative, t, result, sent_log, received,
                   delays, prev_overloaded, auth_log, last_exchange, pgvars, purevars,
                   wirevars>>

\* the call has returned: its locals are gone
Leave ==
    /\ pc' = "Idle"
    /\ caller' = "none"
    /\ mutcall' = FALSE
    /\ method' = "GET"
    /\ caller_params' = EmptyMap
    /\ params' = EmptyMap
    /\ attempts_left' = 0
    /\ cumulative' = 0
    /\ t' = NoText
    /\ sleep_ms' = 0
    /\ result' = NoResult
    /\ sent_log' = <<>>
    /\ received' = <<>>
    /\ sleeps' = <<>>
    /\ auth_log' = <<>>
    /\ last_exchange' = NoExchange
    /\ delays' = <<>>
    /\ prev_overloaded' = (Overloads(received) > 0)

\* the call returns to the caller of query_api_json / post_query_api_json_mut
Return ==
    /\ pc \in {"Success", "Fatal"}
    /\ caller = "direct"
    /\ Leave
    /\ UNCHANGED <<cfgvars, pgvars, purevars, wirevars>>

(***************************************************************************)
(* get_query_api_json_limit_iter: struct ApiQuery and its Iterator::next   *)
(***************************************************************************)
\* the entries next() takes from continue_params (the filter and the map)
continue_entries(c) ==
    IF c.t = "obj"
    THEN [k \in DOMAIN c.o \ {"continue"} |->
             IF c.o[k].t = "str" THEN c.o[k].s ELSE JsonText(c.o[k])]
    ELSE EmptyMap

\* current_params of next(): the clone of self.params extended
current_params(p, c) == Extend(p, continue_entries(c))

\* self.params extended in place
params_after_next_extended(p, c) == Extend(p, continue_entries(c))

\* self.params after next(): only the clone was extended
params_after_next(p, c) == p

\* the keys of a JSON object in the iteration order of serde_json's Map
KeyOrder == <<"continue", "error", "pages", "query", "search", "searchinfo">>

\* the count taken over every array of `query`
query_result_count_total(r) ==
    LET q == Idx(r, "query") IN
    IF q.t = "obj"
    THEN LET arrs == {i \in 1..Len(KeyOrder) :
                         KeyOrder[i] \in DOMAIN q.o /\ q.o[KeyOrder[i]].t = "arr"}
             len[S \in SUBSET arrs] ==
                 IF S = {} THEN 0
                 ELSE LET i == CHOOSE x \in S : TRUE
                      IN Len(q.o[KeyOrder[i]].a) + len[S \ {i}]
         IN len[arrs]
    ELSE 0

\* fn query_result_count
query_result_count(r) ==
    LET q == Idx(r, "query") IN
    IF q.t = "obj"
    THEN LET arrs == {i \in 1..Len(KeyOrder) :
                         KeyOrder[i] \in DOMAIN q.o /\ q.o[KeyOrder[i]].t = "arr"}
         IN IF arrs = {} THEN 0
            ELSE Len(q.o[KeyOrder[CHOOSE i \in arrs : \A j \in arrs : i <= j]].a)
    ELSE 0

\* a ceiling that counts pages, not items
saturating_sub_one(a, b) == IF a >= 1 THEN a - 1 ELSE 0

\* usize::saturating_sub
saturating_sub(a, b) == IF a >= b THEN a - b ELSE 0

\* result["continue"].take() alone: the member stays, as null
strip_continue_taken(r) ==
    IF r.t = "obj"
    THEN JObj([k \in DOMAIN r.o |-> IF k = "continue" THEN JNull ELSE r.o[k]])
    ELSE JObj("continue" :> JNull)

\* result.as_object_mut().map(|r| r.remove("continue")) after
\* result["continue"].take(): IndexMut has turned a Null result into {}
strip_continue(r) ==
    IF r.t = "obj" THEN JObj([k \in DOMAIN r.o \ {"continue"} |-> r.o[k]])
    ELSE JObj(EmptyMap)

\* values_remaining that a page without `continue` leaves as it is
next_values_remaining_noend(vr, c, r) ==
    IF vr.some THEN Some(saturating_sub(vr.v, query_result_count(r))) ELSE vr

\* values_remaining after a page r whose continue member is c
next_values_remaining(vr, c, r) ==
    IF is_null(c) THEN Some(0)
    ELSE IF vr.some THEN Some(saturating_sub(vr.v, query_result_count(r)))
    ELSE vr

\* the Err arm without its assignment
values_remaining_on_error_kept(vr) == vr

\* values_remaining after a page request that failed: the Err arm of next()
values_remaining_on_error(vr) == Some(0)

\* the values of `max`
Ceilings == {None} \cup {Some(n) : n \in 0..MaxCeiling}

\* the ApiQuery as get_query_api_json_limit_iter builds it
NewApiQuery(p, max) ==
    /\ pg_params' = p
    /\ values_remaining' = max
    /\ pg_max' = max
    /\ continue_params' = JNull
    /\ cont_log' = <<>>
    /\ pg_requests' = 0
    /\ yielded' = NoItem
    /\ pages' = <<>>
    /\ acc' = JNull
    /\ fold_result' = NoResult

\* an ApiQuery that sends its first page request when it is built
PagerNew_eager ==
    /\ pc = "Idle"
    /\ pg_pc = "none"
    /\ lg.pc = "none"
    /\ \E p \in PagerQueries, max \in Ceilings :
          /\ NewApiQuery(p, max)
          /\ Enter("pager", FALSE, p, "GET")
    /\ folding' = FALSE
    /\ pg_pc' = "calling"
    /\ UNCHANGED <<cfgvars, prev_overloaded, purevars, wirevars>>

\* fn get_query_api_json_limit_iter: the ApiQuery is built, nothing is sent
PagerNew ==
    /\ pc = "Idle"
    /\ pg_pc = "none"
    /\ lg.pc = "none"
    /\ \E p \in PagerQueries, max \in Ceilings : NewApiQuery(p, max)
    /\ folding' = FALSE
    /\ pg_pc' = "ready"
    /\ UNCHANGED <<cfgvars, callvars, purevars, wirevars>>

\* fn get_query_api_json_limit up to the first next() of its try_fold: the
\* ApiQuery is built and the accumulator is Value::Null
FoldStart ==
    /\ pc = "Idle"
    /\ pg_pc = "none"
    /\ \E p \in PagerQueries, max \in Ceilings : NewApiQuery(p, max)
    /\ folding' = TRUE
    /\ pg_pc' = "ready"
    /\ UNCHANGED <<cfgvars, callvars, purevars, wirevars>>

\* next() when values_remaining == Some(0): None, nothing is sent; the
\* try_fold then returns its accumulator
PagerEnd ==
    /\ pc = "Idle"
    /\ pg_pc = "ready"
    /\ values_remaining = Some(0)
    /\ yielded' = [kind |-> "end"]
    /\ IF folding
       THEN /\ fold_result' = Ok(acc)
            /\ pg_pc' = "folded"
       ELSE UNCHANGED <<fold_result, pg_pc>>
    /\ UNCHANGED <<cfgvars, callvars, purevars, wirevars, pg_params, values_remaining,
                   continue_params, cont_log, pg_requests, pg_max, pages, folding, acc>>

\* next() up to the entry of get_query_api_json(&current_params)
PagerPull ==
    /\ pc = "Idle"
    /\ pg_pc = "ready"
    /\ values_remaining # Some(0)
    /\ pg_requests < MaxPages
    /\ Enter("pager", FALSE, current_params(pg_params, continue_params), "GET")
    /\ continue_params' = JNull
    /\ pg_requests' = pg_requests + 1
    /\ pg_pc' = "calling"
    /\ pg_params' = params_after_next(pg_params, continue_params)
    /\ UNCHANGED <<cfgvars, prev_overloaded, purevars, wirevars, values_remaining, cont_log,
                   yielded, pg_max, pages, folding, acc, fold_result>>

\* the item next() returns is handed to its consumer: the caller of next(),
\* or the closure of the try_fold
Hand(item) ==
    /\ yielded' = [kind |-> "item", item |-> item]
    /\ pages' = Append(pages, item)
    /\ IF folding
       THEN /\ acc' = fold_step(acc, item).acc
            /\ fold_result' = fold_step(acc, item).ret
            /\ pg_pc' = IF fold_step(acc, item).done THEN "folded" ELSE "ready"
       ELSE /\ pg_pc' = "ready"
            /\ UNCHANGED <<acc, fold_result>>

\* next() from the return of get_query_api_json: the match on its result
PagerYield ==
    /\ pc \in {"Success", "Fatal"}
    /\ caller = "pager"
    /\ Leave
    /\ IF result.ok
       THEN IF result.v.t \notin {"obj", "null"}
            THEN \* result["continue"] panics on a value that is no object
                 /\ pg_pc' = "panicked"
                 /\ yielded' = [kind |-> "panic"]
                 /\ UNCHANGED <<values_remaining, continue_params, cont_log,
                                pages, acc, fold_result>>
            ELSE /\ continue_params' = Idx(result.v, "continue")
                 /\ values_remaining' =
                        next_values_remaining(values_remaining,
                                              Idx(result.v, "continue"), result.v)
                 /\ cont_log' = Append(cont_log, Idx(received[Len(received)].v, "continue"))
                 /\ Hand(Ok(strip_continue(result.v)))
       ELSE /\ values_remaining' = values_remaining_on_error(values_remaining)
            /\ Hand(Err(result.e))
            /\ UNCHANGED <<continue_params, cont_log>>
    /\ UNCHANGED <<cfgvars, purevars, wirevars, pg_params, pg_requests, pg_max, folding>>

\* the ApiQuery is gone
EndApiQuery ==
    /\ pg_pc' = "none"
    /\ pg_params' = EmptyMap
    /\ values_remaining' = None
    /\ continue_params' = JNull
    /\ cont_log' = <<>>
    /\ pg_requests' = 0
    /\ yielded' = NoItem
    /\ pg_max' = None
    /\ pages' = <<>>
    /\ folding' = FALSE
    /\ acc' = JNull
    /\ fold_result' = NoResult

\* the iterator is dropped by its user, or unwound by the panic
PagerDrop ==
    /\ pc = "Idle"
    /\ \/ pg_pc = "ready" /\ ~folding
       \/ pg_pc = "panicked"
    /\ EndApiQuery
    /\ UNCHANGED <<cfgvars, callvars, purevars, wirevars>>

\* get_query_api_json_limit returns fold_result to its caller
FoldReturn ==
    /\ pc = "Idle"
    /\ pg_pc = "folded"
    /\ EndApiQuery
    /\ UNCHANGED <<cfgvars, callvars, purevars, wirevars>>

Next ==
    \/ SetMaxRetryAttempts
    \/ SetMaxlag
    \/ StartCall
    \/ StartCallMut
    \/ Send
    \/ Parse
    \/ Sleep
    \/ Return
    \/ PagerNew
    \/ FoldStart
    \/ PagerEnd
    \/ PagerPull
    \/ PagerYield
    \/ PagerDrop
    \/ FoldReturn

Spec == Init /\ [][Next]_vars

apivars == <<cfgvars, callvars, pgvars, wirevars>>

(***************************************************************************)
(* The signed mode: set_oauth, the clock, and the calls of the engine.     *)
(***************************************************************************)
\* OAuthParams::new_from_json: each of the four fields is there or not
OAuthFull ==
    [g_consumer_key |-> Some(Chars("ck")), g_consumer_secret |-> Some(Chars("cs")),
     g_token_key |-> Some(Chars("tk")), g_token_secret |-> Some(Chars("ts"))]

\* all four fields; one secret missing; nothing at all
OAuthChoices ==
    {Some(OAuthFull),
     Some([OAuthFull EXCEPT !.g_consumer_secret = None]),
     Some([OAuthFull EXCEPT !.g_token_secret = None]),
     Some([g_consumer_key |-> None, g_consumer_secret |-> None,
           g_token_key |-> None, g_token_secret |-> None])}

\* the Api after its construction and set_oauth(Some(..))
InitOAuth ==
    /\ InitApi
    /\ max_retry_attempts = DEFAULT_MAX_RETRY_ATTEMPTS
    /\ oauth \in OAuthChoices
    /\ server_cookies = {<<>>}
    /\ mg = NoMerge
    /\ sg = NoSign
    /\ bw = NoBorrow
    /\ pf = NoPure

\* a second passes. The clock is read by oauth_request_builder only: the
\* seconds that pass at any other time show at the next request built
Tick ==
    /\ pc = "Sending"
    /\ clock < Epoch + MaxTicks
    /\ clock' = clock + 1
    /\ UNCHANGED <<cfgvars, callvars, pgvars, purevars, oauth, cookie_jar, uuids,
                   server_cookies, nonce_log, user>>

\* the panic unwinds the call and, with it, the ApiQuery that made it
Unwind ==
    /\ pc = "Panicked"
    /\ Leave
    /\ IF pg_pc = "none" THEN UNCHANGED pgvars ELSE EndApiQuery
    /\ UNCHANGED <<cfgvars, purevars, wirevars>>

NextOAuth ==
    \/ Tick
    \/ StartCall
    \/ StartCallMut
    \/ Send
    \/ Parse
    \/ Sleep
    \/ Return
    \/ Unwind
    \/ PagerNew
    \/ PagerEnd
    \/ PagerPull
    \/ PagerYield
    \/ PagerDrop

SpecOAuth == InitOAuth /\ [][NextOAuth]_vars

(***************************************************************************)
(* The session: a site that sets cookies, and the calls of the engine.     *)
(***************************************************************************)
\* a Set-Cookie header value that to_str accepts
Header(str) == [ascii |-> TRUE, s |-> str]

\* the Set-Cookie values of the site: three cookies, and values with no pair,
\* with no name, and of bytes that are not visible ASCII
SC ==
    [sid1 |-> Header("sid=1"),
     sid2 |-> Header("sid=2; HttpOnly; Path=/"),
     lang |-> Header("lang=en"),
     nopair |-> Header("garbage"),
     noname |-> Header("=x; Path=/"),
     bytes |-> [ascii |-> FALSE, s |-> "sid=9"]]

\* the Set-Cookie values of a response
SessionCookies ==
    {<<>>,
     <<SC.sid1, SC.lang>>,
     <<SC.nopair, SC.sid1, SC.bytes, SC.sid2, SC.noname>>}

\* the parameters of get_token
Q_tokens == [action |-> "query", meta |-> "tokens"]

\* the Api after its construction and set_max_retry_attempts(1)
InitSession ==
    /\ InitApi
    /\ max_retry_attempts = 1
    /\ oauth = None
    /\ server_cookies = SessionCookies
    /\ mg = NoMerge
    /\ sg = NoSign
    /\ bw = NoBorrow
    /\ pf = NoPure

\* fn get_token up to the loop of query_api_json_mut
GetToken ==
    /\ pc = "Idle"
    /\ pg_pc = "none"
    /\ lg.pc = "none"
    /\ Enter("direct", TRUE, Q_tokens, "GET")
    /\ UNCHANGED <<cfgvars, prev_overloaded, pgvars, purevars, wirevars>>

NextSession ==
    \/ StartCall
    \/ StartCallMut
    \/ GetToken
    \/ Send
    \/ Parse
    \/ Sleep
    \/ Return
    \/ PagerNew
    \/ PagerEnd
    \/ PagerPull
    \/ PagerYield
    \/ PagerDrop

SpecSession == InitSession /\ [][NextSession]_vars

(***************************************************************************)
(* Threads that share one Api. query_api_json takes &self and              *)
(* query_api_json_mut takes &mut self: a call holds the borrow of its      *)
(* receiver from its entry to its return, and a &mut borrow is live only   *)
(* while no other borrow of the Api is.                                    *)
(***************************************************************************)
Threads == 1..MaxThreads

\* the borrows the other threads hold
OthersAt(me) == {bw.th[u].at : u \in Threads \ {me}}

\* a receiver &self where the code has &mut self
may_borrow_mut_shared(me) == OthersAt(me) \subseteq {"idle", "shared"}

\* &mut self: no other borrow of the Api is live
may_borrow_mut(me) == OthersAt(me) \subseteq {"idle"}

\* &self: no &mut borrow of the Api is live
may_borrow(me) == OthersAt(me) \subseteq {"idle", "shared"}

\* the Set-Cookie value the site answers the n-th session-updating call of
\* thread me with
ThreadCookie(me, n) == Header("c" \o NatToStr(me) \o "=" \o NatToStr(n))

InitBorrow ==
    /\ InitApi
    /\ max_retry_attempts = DEFAULT_MAX_RETRY_ATTEMPTS
    /\ oauth = None
    /\ server_cookies = {<<ThreadCookie(me, n)>> : me \in Threads, n \in 1..MaxCalls}
    /\ mg = NoMerge
    /\ sg = NoSign
    /\ bw = [pc |-> "threads",
             th |-> [me \in Threads |-> [at |-> "idle", calls |-> 0, jar |-> EmptyMap]],
             captured |-> EmptyMap]
    /\ pf = NoPure

\* everything but the jar and the threads
borrowvars == <<cfgvars, callvars, pgvars, oauth, clock, uuids, server_cookies,
                nonce_log, user, mg, sg, lg, pf>>

\* a thread enters query_api_json
BorrowShared(me) ==
    /\ bw.th[me].at = "idle"
    /\ bw.th[me].calls < MaxCalls
    /\ may_borrow(me)
    /\ bw' = [bw EXCEPT !.th[me].at = "shared"]
    /\ UNCHANGED <<borrowvars, cookie_jar>>

\* query_api_json returns: query_raw has read no header and written no cookie
ReleaseShared(me) ==
    /\ bw.th[me].at = "shared"
    /\ bw' = [bw EXCEPT !.th[me].at = "idle", !.th[me].calls = @ + 1]
    /\ UNCHANGED <<borrowvars, cookie_jar>>

\* a thread enters query_api_json_mut
BorrowMut(me) ==
    /\ bw.th[me].at = "idle"
    /\ bw.th[me].calls < MaxCalls
    /\ may_borrow_mut(me)
    /\ bw' = [bw EXCEPT !.th[me].at = "mut"]
    /\ UNCHANGED <<borrowvars, cookie_jar>>

\* query_raw_mut has its response: set_cookies_from_response reads the jar
CaptureRead(me) ==
    /\ bw.th[me].at = "mut"
    /\ bw' = [bw EXCEPT !.th[me].at = "capturing", !.th[me].jar = cookie_jar]
    /\ UNCHANGED <<borrowvars, cookie_jar>>

\* and writes it, with the cookies of the response added
CaptureWrite(me) ==
    /\ bw.th[me].at = "capturing"
    /\ \E hs \in {<<ThreadCookie(me, bw.th[me].calls + 1)>>} :
          /\ hs \in server_cookies
          /\ cookie_jar' = set_cookies_from_response(bw.th[me].jar, hs)
          /\ bw' = [bw EXCEPT !.th[me].at = "captured",
                              !.th[me].jar = EmptyMap,
                              !.captured = Insert(@, "c" \o NatToStr(me),
                                                  NatToStr(bw.th[me].calls + 1))]
    /\ UNCHANGED borrowvars

\* query_api_json_mut returns
ReleaseMut(me) ==
    /\ bw.th[me].at = "captured"
    /\ bw' = [bw EXCEPT !.th[me].at = "idle", !.th[me].calls = @ + 1]
    /\ UNCHANGED <<borrowvars, cookie_jar>>

NextBorrow ==
    \/ \E me \in Threads : BorrowShared(me)
    \/ \E me \in Threads : ReleaseShared(me)
    \/ \E me \in Threads : BorrowMut(me)
    \/ \E me \in Threads : CaptureRead(me)
    \/ \E me \in Threads : CaptureWrite(me)
    \/ \E me \in Threads : ReleaseMut(me)

SpecBorrow == InitBorrow /\ [][NextBorrow]_vars

(***************************************************************************)
(* The configuration of an Api: the four setters between the calls.        *)
(***************************************************************************)
\* the delay set_edit_delay is called with, in milliseconds
EditDelayMs == 250

\* fn set_edit_delay
SetEditDelay ==
    /\ pc = "Idle"
    /\ pg_pc = "none"
    /\ lg.pc = "none"
    /\ \E d \in {None, Some(EditDelayMs)} : edit_delay_ms' = d
    /\ UNCHANGED <<max_retry_attempts, maxlag_seconds, callvars, pgvars, purevars,
                   wirevars>>

\* fn set_oauth
SetOAuth ==
    /\ pc = "Idle"
    /\ pg_pc = "none"
    /\ lg.pc = "none"
    /\ \E o \in {None, Some(OAuthFull)} : oauth' = o
    /\ UNCHANGED <<cfgvars, callvars, pgvars, purevars, cookie_jar, clock, uuids,
                   server_cookies, nonce_log, user>>

\* the edit delay is set, then calls are made
NextDelay ==
    \/ SetEditDelay
    \/ SetMaxRetryAttempts
    \/ StartCall
    \/ StartCallMut
    \/ Send
    \/ Parse
    \/ Sleep
    \/ Return

SpecDelay == Init /\ [][NextDelay]_vars

(***************************************************************************)
(* query_result_count and the arithmetic of next() on one page.            *)
(***************************************************************************)
\* the members of `query`
CountKeys == {"pages", "search", "searchinfo"}

\* what a member of `query` may be: no array, or an array of 0 to MaxItem items
CountMembers ==
    {JStr("x"), JObj("totalhits" :> JNum(7))}
    \cup {JArr([i \in 1..n |-> JNum(i)]) : n \in 0..MaxItem}

\* the `query` member of a page: absent (null), no object, or an object
CountQueries ==
    {JNull, JStr("q"), JArr(<<JNum(1)>>)}
    \cup {JObj(f) : f \in UNION {[K -> CountMembers] : K \in SUBSET CountKeys}}

\* a page as get_query_api_json returns it, with or without `continue`
CountPages ==
    {JObj((IF is_null(q) THEN EmptyMap ELSE "query" :> q)
          @@ (IF is_null(c) THEN EmptyMap ELSE "continue" :> c)) :
        q \in CountQueries, c \in {JNull, C_num}}

\* next() has the page in hand; values_remaining is not Some(0), or next()
\* had returned None
InitCount ==
    /\ InitApi
    /\ max_retry_attempts = DEFAULT_MAX_RETRY_ATTEMPTS
    /\ oauth = None
    /\ server_cookies = {<<>>}
    /\ mg = NoMerge
    /\ sg = NoSign
    /\ bw = NoBorrow
    /\ \E r \in CountPages, vr \in Ceilings \ {Some(0)} :
          pf = [pc |-> "page", result |-> r, values_remaining |-> vr,
                count |-> 0, before |-> vr]

\* the Ok arm of next() up to the assignment of values_remaining
CountPage ==
    /\ pf.pc = "page"
    /\ pf' = [pf EXCEPT
                 !.pc = "counted",
                 !.count = query_result_count(pf.result),
                 !.values_remaining =
                     next_values_remaining(pf.values_remaining,
                                           Idx(pf.result, "continue"), pf.result)]
    /\ UNCHANGED <<apivars, mg, sg, bw, lg>>

\* next() returns the page and the caller lets go of it
CountDone ==
    /\ pf.pc = "counted"
    /\ pf' = [pf EXCEPT !.pc = "done", !.result = strip_continue(pf.result)]
    /\ UNCHANGED <<apivars, mg, sg, bw, lg>>

NextCount ==
    \/ CountPage
    \/ CountDone

SpecCount == InitCount /\ [][NextCount]_vars

(***************************************************************************)
(* Page::text: the request for the revision and the reading of its slots.  *)
(***************************************************************************)
\* the thread panics in an IndexMut of serde_json
Panic == [t |-> "panic"]

\* Value's IndexMut<&str>: a Null becomes an empty object, a missing key is
\* inserted as Null, and any other value that is no object panics
IdxMut(j, k) ==
    IF j.t = "panic" THEN j
    ELSE IF j.t = "obj" THEN Idx(j, k)
    ELSE IF j.t = "null" THEN JNull
    ELSE Panic

\* Value's IndexMut<usize>: panics unless the value is an array with such an
\* index
AtMut(j, i) ==
    IF j.t = "panic" THEN j
    ELSE IF j.t = "arr" /\ i < Len(j.a) THEN j.a[i + 1]
    ELSE Panic

\* slots.values_mut().next(): the slot of the first key as the Map iterates
FirstKey(K) == CHOOSE k \in K : \A j \in K \ {k} : StrLess(Chars(k), Chars(j))

PageErr(e) == [kind |-> "err", e |-> e]
PageOk(str) == [kind |-> "ok", v |-> str]
PagePanic == [kind |-> "panic"]

\* Page::text from the result of get_query_api_json on
page_text(res) ==
    LET page == AtMut(IdxMut(IdxMut(res, "query"), "pages"), 0) IN
    IF page.t = "panic" THEN PagePanic
    ELSE IF Idx(page, "missing") = JBool(TRUE) THEN PageErr("Missing")
    ELSE LET slots == IdxMut(AtMut(IdxMut(page, "revisions"), 0), "slots") IN
         IF slots.t = "panic" THEN PagePanic
         ELSE IF slots.t = "obj"
         THEN LET slot == IF "main" \in DOMAIN slots.o THEN Some(slots.o["main"])
                          ELSE IF DOMAIN slots.o # {}
                               THEN Some(slots.o[FirstKey(DOMAIN slots.o)])
                               ELSE None
              IN IF ~slot.some THEN PageErr("BadResponse")
                 ELSE LET content == IdxMut(slot.v, "content") IN
                      IF content.t = "panic" THEN PagePanic
                      ELSE IF content.t = "str" THEN PageOk(content.s)
                      ELSE PageErr("BadResponse")
         ELSE PageErr("BadResponse")

\* the slot roles of a revision
SlotKeys == {"aux", "main", "mediainfo"}

\* what the site sends as slot k: its content, no content, or no object
SlotsOf(k) ==
    {JObj(("contentmodel" :> JStr("wikitext")) @@ ("content" :> JStr("text of " \o k))),
     JObj("contentmodel" :> JStr("wikitext")),
     JStr("raw")}

\* the result for a page with the slots object sl
RevisionResult(sl) ==
    JObj("query" :> JObj("pages" :>
        JArr(<<JObj(("title" :> JStr("T"))
                    @@ ("revisions" :> JArr(<<JObj("slots" :> sl)>>)))>>)))

\* the results of the request: a page with any slots, a missing page, and
\* results without pages, without revisions, with slots that are no object
PageTextResults ==
    {RevisionResult(JObj(f)) :
        f \in UNION {{g \in [K -> UNION {SlotsOf(k) : k \in K}] :
                         \A k \in K : g[k] \in SlotsOf(k)} : K \in SUBSET SlotKeys}}
    \cup {RevisionResult(JArr(<<>>)),
          JObj("query" :> JObj("pages" :>
              JArr(<<JObj(("title" :> JStr("T")) @@ ("missing" :> JBool(TRUE)))>>))),
          JObj("query" :> JObj("pages" :> JArr(<<JObj("title" :> JStr("T"))>>))),
          JObj("query" :> JObj("pages" :> JArr(<<>>))),
          JObj("batchcomplete" :> JBool(TRUE)),
          JNull}

\* Page::text is called
InitPage ==
    /\ InitApi
    /\ max_retry_attempts = DEFAULT_MAX_RETRY_ATTEMPTS
    /\ oauth = None
    /\ server_cookies = {<<>>}
    /\ mg = NoMerge
    /\ sg = NoSign
    /\ bw = NoBorrow
    /\ pf = [pc |-> "text", result |-> NoResult, ret |-> NoResult]

\* full_pretty gives no title, or get_query_api_json returns
PageTextRequest ==
    /\ pf.pc = "text"
    /\ \/ pf' = [pf EXCEPT !.pc = "text_done", !.ret = PageErr("BadTitle")]
       \/ pf' = [pf EXCEPT !.pc = "text_done", !.result = Err([kind |-> "transport"]),
                           !.ret = PageErr("RequestError")]
       \/ \E r \in PageTextResults : pf' = [pf EXCEPT !.pc = "text_result", !.result = Ok(r)]
    /\ UNCHANGED <<apivars, mg, sg, bw, lg>>

\* the rest of Page::text
PageTextReturn ==
    /\ pf.pc = "text_result"
    /\ pf' = [pf EXCEPT !.pc = "text_done", !.ret = page_text(pf.result.v)]
    /\ UNCHANGED <<apivars, mg, sg, bw, lg>>

NextPage ==
    \/ PageTextRequest
    \/ PageTextReturn

SpecPage == InitPage /\ [][NextPage]_vars

(***************************************************************************)
(* login: get_token("login"), the POST of action=login, the user.          *)
(***************************************************************************)
\* the params of get_token(token_type)
TokenParams(token_type) ==
    IF token_type = "" THEN Q_tokens ELSE Insert(Q_tokens, "type", token_type)

\* the key get_token reads the token from
TokenKey(token_type) == IF token_type = "" THEN "csrftoken" ELSE token_type \o "token"

\* get_token after query_api_json_mut returned Ok(response)
token_of(response, token_type) ==
    as_str(IdxMut(IdxMut(IdxMut(response, "query"), "tokens"), TokenKey(token_type)))

\* the params of the login request with the token under the name `token`
LoginParams_token(lgname, lgpassword, lgtoken) ==
    [action |-> "login", lgname |-> lgname, lgpassword |-> lgpassword, token |-> lgtoken]

\* the params of the login request
LoginParams(lgname, lgpassword, lgtoken) ==
    [action |-> "login", lgname |-> lgname, lgpassword |-> lgpassword, lgtoken |-> lgtoken]

\* the Api after its construction and set_max_retry_attempts(1)
InitLogin ==
    /\ InitApi
    /\ max_retry_attempts = 1
    /\ oauth = None
    /\ server_cookies = {<<>>, <<SC.sid1>>}
    /\ mg = NoMerge
    /\ sg = NoSign
    /\ bw = NoBorrow
    /\ pf = NoPure

\* login is called: get_token("login") up to the loop of query_api_json_mut
Login ==
    /\ pc = "Idle"
    /\ pg_pc = "none"
    /\ lg.pc = "none"
    /\ lg' = [pc |-> "token", token |-> None, ret |-> NoResult, res |-> JNull,
              posts |-> 0, user_before |-> user]
    /\ Enter("login", TRUE, TokenParams("login"), "GET")
    /\ UNCHANGED <<cfgvars, prev_overloaded, pgvars, mg, sg, bw, pf, wirevars>>

\* get_token returns; with a token, login goes on to
\* query_api_json_mut(&params, "POST") up to its loop
LoginToken ==
    /\ pc \in {"Success", "Fatal"}
    /\ caller = "login"
    /\ lg.pc = "token"
    /\ IF result.ok /\ token_of(result.v, "login").some
       THEN /\ lg' = [lg EXCEPT !.pc = "post", !.token = token_of(result.v, "login")]
            /\ Enter("login", TRUE,
                     LoginParams("bot", "pw", token_of(result.v, "login").v), "POST")
            /\ prev_overloaded' = (Overloads(received) > 0)
       ELSE /\ lg' = [lg EXCEPT
                        !.pc = "done",
                        !.ret = IF result.ok THEN Err([kind |-> "Could not get token"])
                                ELSE result]
            /\ Leave
    /\ UNCHANGED <<cfgvars, pgvars, mg, sg, bw, pf, wirevars>>

\* the POST returns: the test of res["login"]["result"] and
\* user.set_from_login, which succeeds or fails
LoginPost ==
    /\ pc \in {"Success", "Fatal"}
    /\ caller = "login"
    /\ lg.pc = "post"
    /\ Leave
    /\ IF ~result.ok
       THEN /\ lg' = [lg EXCEPT !.pc = "done", !.ret = result, !.posts = Len(sent_log)]
            /\ UNCHANGED user
       ELSE IF Idx(Idx(result.v, "login"), "result") = JStr("Success")
            THEN \E set \in BOOLEAN :
                    IF set
                    THEN /\ user' = [logged_in |-> TRUE,
                                     lgusername |->
                                         OptOr(as_str(Idx(Idx(result.v, "login"),
                                                          "lgusername")), Some("")).v]
                         /\ lg' = [lg EXCEPT !.pc = "userinfo", !.res = result.v,
                                             !.posts = Len(sent_log)]
                    ELSE /\ lg' = [lg EXCEPT !.pc = "done", !.res = result.v,
                                             !.ret = Err([kind |-> "set_from_login"]),
                                             !.posts = Len(sent_log)]
                         /\ UNCHANGED user
            ELSE /\ lg' = [lg EXCEPT !.pc = "done", !.res = result.v,
                                     !.ret = Err([kind |-> "Login failed"]),
                                     !.posts = Len(sent_log)]
                 /\ UNCHANGED user
    /\ UNCHANGED <<cfgvars, pgvars, mg, sg, bw, pf, oauth, cookie_jar, clock, uuids,
                   server_cookies, nonce_log>>

\* fn load_user_info: the user is taken out of the Api, and put back when
\* user.load_user_info succeeded
LoginUserInfo ==
    /\ lg.pc = "userinfo"
    /\ \E loaded \in BOOLEAN :
          IF loaded
          THEN /\ lg' = [lg EXCEPT !.pc = "done", !.ret = Ok(JNull)]
               /\ UNCHANGED user
          ELSE /\ lg' = [lg EXCEPT !.pc = "done", !.ret = Err([kind |-> "load_user_info"])]
               /\ user' = NoUser
    /\ UNCHANGED <<cfgvars, callvars, pgvars, mg, sg, bw, pf, oauth, cookie_jar, clock,
                   uuids, server_cookies, nonce_log>>

\* login returns
LoginReturn ==
    /\ lg.pc = "done"
    /\ lg' = NoLogin
    /\ UNCHANGED <<apivars, mg, sg, bw, pf>>

NextLogin ==
    \/ SetEditDelay
    \/ Login
    \/ LoginToken
    \/ LoginPost
    \/ LoginUserInfo
    \/ LoginReturn
    \/ Send
    \/ Parse
    \/ Sleep

SpecLogin == InitLogin /\ [][NextLogin]_vars

(***************************************************************************)
(* The configuration: the four setters, called between queries, logins and *)
(* paginated calls.                                                        *)
(***************************************************************************)
NextConfig ==
    \/ SetMaxRetryAttempts
    \/ SetMaxlag
    \/ SetEditDelay
    \/ SetOAuth
    \/ GetToken
    \/ Login
    \/ LoginToken
    \/ LoginPost
    \/ LoginUserInfo
    \/ LoginReturn
    \/ Send
    \/ Parse
    \/ Sleep
    \/ Return
    \/ PagerNew
    \/ PagerEnd
    \/ PagerPull
    \/ PagerYield
    \/ PagerDrop

SpecConfig == Init /\ [][NextConfig]_vars

(***************************************************************************)
(* The calls of the engine when every exchange returns and every sleep     *)
(* ends: send(), serde_json::from_str and thread::sleep are blocking calls *)
(* of the one thread that runs the loop.                                   *)
(***************************************************************************)
NextLive ==
    \/ SetMaxRetryAttempts
    \/ StartCall
    \/ StartCallMut
    \/ Send
    \/ Parse
    \/ Sleep
    \/ Return

SpecLive ==
    /\ Init
    /\ [][NextLive]_vars
    /\ WF_vars(Send)
    /\ WF_vars(Parse)
    /\ WF_vars(Sleep)

(***************************************************************************)
(* The merge functions on their own: a caller holds three JSON values,     *)
(* merges the first two, then chains the third.                            *)
(***************************************************************************)
MergeScalars == {JNull, JStr("s"), JNum(1)}
MergeArrays == {JArr(<<>>)} \cup {JArr(<<JNum(i)>>) : i \in 1..MaxItem}
MergeLeaves == MergeScalars \cup MergeArrays

\* the objects with no member or the member x
MergeInner == {JObj(EmptyMap)} \cup {JObj("x" :> l) : l \in MergeLeaves}

\* the values of a member: scalars, arrays, objects
MergeMembers == MergeLeaves \cup MergeInner

\* the objects of a page: the member k, if any, of every kind, and the
\* member j, if any, an array
MergePages ==
    {JObj(EmptyMap), JObj("j" :> JArr(<<JNum(1)>>))}
    \cup {JObj("k" :> m) : m \in MergeMembers}
    \cup {JObj(("k" :> m) @@ ("j" :> JArr(<<JNum(1)>>))) : m \in MergeMembers}

MergeValues == MergeLeaves \cup MergePages

InitMerge ==
    /\ InitApi
    /\ max_retry_attempts = DEFAULT_MAX_RETRY_ATTEMPTS
    /\ oauth = None
    /\ server_cookies = {<<>>}
    /\ mg \in {[pc |-> "start", a |-> x, b |-> y, c |-> z] :
                   x \in MergeValues, y \in MergeValues, z \in MergeValues}
    /\ sg = NoSign
    /\ bw = NoBorrow
    /\ pf = NoPure

\* a and b are merged, by json_merge and by Mergeable::merge
MergePair ==
    /\ mg.pc = "start"
    /\ mg' = [pc |-> "pair", a |-> mg.a, b |-> mg.b, c |-> mg.c,
              ab |-> json_merge(mg.a, mg.b),
              ab_trait |-> merge(mg.a, mg.b)]
    /\ UNCHANGED <<apivars, sg, bw, lg, pf>>

\* c is chained: merged into the result of a and b as a fold does, and, for
\* comparison, b and c are merged first and the result merged into a
MergeChain ==
    /\ mg.pc = "pair"
    /\ mg' = [pc |-> "chain", a |-> mg.a, b |-> mg.b, c |-> mg.c,
              ab |-> mg.ab, ab_trait |-> mg.ab_trait,
              left |-> json_merge(mg.ab, mg.c),
              right |-> json_merge(mg.a, json_merge(mg.b, mg.c))]
    /\ UNCHANGED <<apivars, sg, bw, lg, pf>>

NextMerge ==
    \/ MergePair
    \/ MergeChain

SpecMerge == InitMerge /\ [][NextMerge]_vars

(***************************************************************************)
(* sign_oauth_request on its own.                                          *)
(***************************************************************************)
\* the inputs
S_GET == <<"G", "E", "T">>
S_POST == <<"P", "O", "S", "T">>
S_oauth_nonce == <<"o", "a", "u", "t", "h", "_", "n", "o", "n", "c", "e">>
S_oauth_timestamp == <<"o", "a", "u", "t", "h", "_", "t", "i", "m", "e", "s", "t", "a", "m", "p">>
S_title == <<"t", "i", "t", "l", "e">>
\* a key that urlencoding::encode changes, and its encoded form as a key
S_my_key == <<"m", "y", " ", "k", "e", "y">>
S_my_key_enc == <<"m", "y", "%", "2", "0", "k", "e", "y">>

RECURSIVE Ones(_)
\* the string of n characters 1
Ones(n) == IF n = 0 THEN <<>> ELSE <<"1">> \o Ones(n - 1)

\* the values of a parameter
SignValues == {Ones(n) : n \in 1..MaxValueLen} \cup {<<"a", " ", "b">>}

SignUrls ==
    {[parses |-> TRUE, scheme |-> <<"h", "t", "t", "p", "s">>, host |-> Some(<<"h", ".", "o", "r", "g">>), port |-> None,
      path |-> <<"/", "w", "/", "a", "p", "i", ".", "p", "h", "p">>],
     [parses |-> TRUE, scheme |-> <<"h", "t", "t", "p", "s">>, host |-> Some(<<"h", ".", "o", "r", "g">>), port |-> Some(<<"8", "0">>),
      path |-> <<"/", "w", "/", "a", "p", "i", ".", "p", "h", "p">>],
     [parses |-> FALSE]}

SignOAuth ==
    {[g_consumer_secret |-> Some(<<"c", "s">>), g_token_secret |-> Some(<<"t", "&", "s">>)],
     [g_consumer_secret |-> Some(<<"c", "s">>), g_token_secret |-> None]}

\* the parameters to sign: the nonce and the timestamp, and any of a title, a
\* key that encoding changes, and the encoded form of that key as a key
SignKeySets ==
    {{S_oauth_nonce, S_oauth_timestamp} \cup X : X \in SUBSET {S_title, S_my_key, S_my_key_enc}}

InitSign ==
    /\ InitApi
    /\ max_retry_attempts = DEFAULT_MAX_RETRY_ATTEMPTS
    /\ oauth = None
    /\ server_cookies = {<<>>}
    /\ mg = NoMerge
    /\ bw = NoBorrow
    /\ pf = NoPure
    /\ \E K \in SignKeySets :
       \E nonce \in SignValues, rest \in SignValues :
       \E k \in K, v \in SignValues :
          /\ v # (IF k = S_oauth_nonce THEN nonce ELSE rest)
          /\ sg \in {[pc |-> "start", method |-> m, api_url |-> u, oauth |-> o,
                      to_sign |-> [x \in K |-> IF x = S_oauth_nonce THEN nonce ELSE rest],
                      key |-> k, value |-> v] :
                        m \in {S_GET, S_POST}, u \in SignUrls, o \in SignOAuth}

\* sign_oauth_request(method, api_url, &to_sign, &oauth)
SignFirst ==
    /\ sg.pc = "start"
    /\ sg' = [pc |-> "signed", method |-> sg.method, api_url |-> sg.api_url,
              oauth |-> sg.oauth, to_sign |-> sg.to_sign, key |-> sg.key,
              value |-> sg.value,
              sig |-> sign_oauth_request(sg.method, sg.api_url, sg.to_sign, sg.oauth)]
    /\ UNCHANGED <<apivars, mg, bw, lg, pf>>

\* the same call again, and the call with the value of the parameter key
\* changed to value
SignChanged ==
    /\ sg.pc = "signed"
    /\ sg' = [pc |-> "compared", method |-> sg.method, api_url |-> sg.api_url,
              oauth |-> sg.oauth, to_sign |-> sg.to_sign, key |-> sg.key,
              value |-> sg.value, sig |-> sg.sig,
              sig_again |-> sign_oauth_request(sg.method, sg.api_url, sg.to_sign, sg.oauth),
              sig_changed |-> sign_oauth_request(sg.method, sg.api_url,
                                                 [sg.to_sign EXCEPT ![sg.key] = sg.value],
                                                 sg.oauth)]
    /\ UNCHANGED <<apivars, mg, bw, lg, pf>>

NextSign ==
    \/ SignFirst
    \/ SignChanged

SpecSign == InitSign /\ [][NextSign]_vars

(***************************************************************************)
(* The claims.                                                             *)
(***************************************************************************)
InCall == pc # "Idle"

IsOverload(r) == r.kind = "text" /\ r.json /\ r.v \in OverloadBodies

\* every exchange of the call so far was answered with maxlag and lag 3
AllLag3 == /\ Len(received) >= 1
           /\ \A i \in 1..Len(received) : received[i] = JsonText_(MaxlagBody(3))

\* C1, as the spec states it: with max_retry_attempts = 2 and a server that
\* answers every exchange with maxlag and lag 3, the call has slept once and
\* fails with the exhausted-retries error on the second overload response,
\* reporting cumulative lag 6.
C1_SpecExample ==
    (InCall /\ max_retry_attempts = 2 /\ AllLag3 /\ Len(received) = 2 /\ pc # "Parsing")
        => /\ pc = "Fatal"
           /\ result = Err(MaxAttemptsError(2, 6))
           /\ sleeps = <<3000>>

\* C1, amended: with max_retry_attempts = 2 and a server that answers every
\* exchange with maxlag and lag 3, the call sleeps 3 seconds after the first
\* and after the second overload response and fails with the
\* exhausted-retries error on the third, reporting cumulative lag 6 with no
\* attempts remaining; it sends no fourth exchange.
C1_BackoffExample ==
    (InCall /\ max_retry_attempts = 2 /\ AllLag3)
        => /\ Len(received) <= 3
           /\ \A i \in 1..Len(sleeps) : sleeps[i] = 3000
           /\ (Len(received) < 3 /\ pc # "Parsing")
                 => /\ pc \in {"Backoff", "Sending"}
                    /\ Len(sleeps) = Len(received) - (IF pc = "Backoff" THEN 1 ELSE 0)
           /\ (Len(received) = 3 /\ pc # "Parsing")
                 => /\ pc = "Fatal"
                    /\ result = Err(MaxAttemptsError(2, 6))
                    /\ cumulative = 6
                    /\ attempts_left = 0
                    /\ sleeps = <<3000, 3000>>

C1_Witness ==
    /\ max_retry_attempts = 2
    /\ AllLag3
    /\ Len(received) = 3
    /\ pc = "Fatal"
    /\ sleeps = <<3000, 3000>>

\* C2: query_api_json and query_api_json_mut never return as a successful
\* result an envelope whose error.code is maxlag, in any configuration.
C2_NoOverloadSuccess ==
    pc = "Success" => as_str(Idx(Idx(result.v, "error"), "code")) # Some("maxlag")

IsFailure(r) == r.kind \in {"send_err", "text_err"} \/ (r.kind = "text" /\ ~r.json)

\* C3: an exchange that fails in the transport or returns a body that is not
\* valid JSON is the last exchange of its call, and the call returns that
\* error, however many attempts remain and whatever came before it.
C3_FailFast ==
    InCall =>
        /\ Len(sent_log) = Len(received)
        /\ \A i \in 1..Len(received) :
              /\ received[i].kind \in {"send_err", "text_err"}
                    => /\ i = Len(received)
                       /\ pc = "Fatal"
                       /\ result = Err([kind |-> "transport"])
              /\ (received[i].kind = "text" /\ ~received[i].json)
                    => /\ i = Len(received)
                       /\ \/ pc = "Parsing"
                          \/ pc = "Fatal" /\ result = Err([kind |-> "parse"])

\* a failure after overload responses that were retried, with attempts left
C3_Witness ==
    /\ pc = "Fatal"
    /\ Len(received) = 3
    /\ IsOverload(received[1]) /\ IsOverload(received[2])
    /\ IsFailure(received[3])
    /\ attempts_left > 0
    /\ mutcall

\* the lag the claims count for an overload response r under threshold T
LagCounted(r, T) ==
    LET l == Idx(Idx(r.v, "error"), "lag")
    IN IF l.t = "num" /\ l.n >= 0 THEN l.n ELSE T

RECURSIVE SumCounted(_, _, _)
\* the sum of the lags counted for the first k responses of the sequence
SumCounted(rs, k, T) ==
    IF k = 0 THEN 0 ELSE SumCounted(rs, k - 1, T) + LagCounted(rs[k], T)

Mutating == method = "POST" /\ "token" \in DOMAIN caller_params

\* C4: in a mutating call with a maxlag threshold T, the maxlag parameter of
\* attempt k is T plus the lags counted for the k-1 overload responses before
\* it, whatever maxlag the caller supplied.
C4_CumulativeMaxlag ==
    (InCall /\ Mutating /\ maxlag_seconds.some) =>
        \A k \in 1..Len(sent_log) :
            /\ "maxlag" \in DOMAIN sent_log[k].params
            /\ sent_log[k].params["maxlag"] =
                   NatToStr(maxlag_seconds.v + SumCounted(received, k - 1, maxlag_seconds.v))

\* third attempt after lags 1 and 3 under threshold 5; the caller gave 77
C4_Witness ==
    /\ InCall /\ Mutating
    /\ maxlag_seconds = Some(5)
    /\ caller_params = Q_editlag
    /\ Len(sent_log) = 3
    /\ received[1] = JsonText_(MaxlagBody(1)) /\ received[2] = JsonText_(MaxlagBody(3))
    /\ sent_log[1].params["maxlag"] = "5"
    /\ sent_log[3].params["maxlag"] = "9"

MaxlagOf(m) == IF "maxlag" \in DOMAIN m THEN Some(m["maxlag"]) ELSE None

\* C5: a request is taken as mutating exactly when its method is POST and its
\* parameters hold `token`; for a request that is not, no attempt inserts or
\* changes a maxlag parameter.
C5_OnlyMutatingGetMaxlag ==
    InCall =>
        /\ is_edit_query(params, method) <=> Mutating
        /\ ~Mutating =>
              /\ MaxlagOf(params) = MaxlagOf(caller_params)
              /\ \A k \in 1..Len(sent_log) :
                    MaxlagOf(sent_log[k].params) = MaxlagOf(caller_params)

\* second attempt of a POST without token, and of a GET with token, with a
\* threshold set and lag accumulated
C5_Witness ==
    /\ InCall /\ ~Mutating
    /\ maxlag_seconds.some /\ cumulative > 0
    /\ Len(sent_log) = 2
    /\ \/ method = "POST" /\ caller_params = Q_plain
       \/ method = "GET" /\ caller_params = Q_edit

NoUsableLag(r) ==
    /\ IsOverload(r)
    /\ LET l == Idx(Idx(r.v, "error"), "lag") IN ~(l.t = "num" /\ l.n >= 0)

\* the responses of the call that were counted and retried so far
Counted == Len(sleeps) + (IF pc = "Backoff" THEN 1 ELSE 0)

\* C6: an overload response without a usable integer lag is counted, and
\* slept for, with the configured threshold in place of the lag.
C6_MissingLagFallback ==
    InCall =>
        /\ \A k \in 1..Counted :
              NoUsableLag(received[k]) =>
                  /\ maxlag_seconds.some
                  /\ (IF k <= Len(sleeps) THEN sleeps[k] ELSE sleep_ms)
                         = 1000 * maxlag_seconds.v
        /\ cumulative = SumCounted(received, Counted,
                                   IF maxlag_seconds.some THEN maxlag_seconds.v ELSE 0)

C6_Witness ==
    /\ InCall
    /\ maxlag_seconds = Some(2)
    /\ Len(sleeps) = 2
    /\ received[1] = JsonText_(MaxlagNoLag) /\ received[2] = JsonText_(MaxlagBadLag)
    /\ sleeps = <<2000, 2000>>
    /\ cumulative = 4

HasOtherError(r) ==
    /\ r.kind = "text" /\ r.json
    /\ Idx(r.v, "error").t = "obj"
    /\ as_str(Idx(Idx(r.v, "error"), "code")) # Some("maxlag")

\* C7: a response with an error object whose code is not maxlag ends the call
\* as its successful result, unchanged, with no sleep and no attempt consumed
\* for it.
C7_BusinessErrorPassThrough ==
    InCall =>
        \A k \in 1..Len(received) :
            HasOtherError(received[k]) =>
                /\ k = Len(received)
                /\ \/ pc = "Parsing"
                   \/ /\ pc = "Success"
                      /\ result = Ok(received[k].v)
                      /\ Len(sleeps) = k - 1
                      /\ sleep_ms = 0
                      /\ attempts_left = max_retry_attempts - (k - 1)

C7_Witness ==
    /\ pc = "Success"
    /\ result = Ok(OtherError)
    /\ Len(received) = 2
    /\ attempts_left = max_retry_attempts - 1

AtCallStart == pc = "Sending" /\ sent_log = <<>>

\* C8: every call, a page request included, starts with attempts remaining
\* equal to max_retry_attempts and cumulative lag 0, whatever the call before
\* it did.
C8_FreshBudget ==
    AtCallStart => attempts_left = max_retry_attempts /\ cumulative = 0

\* the second page request, after a page request that met maxlag
C8_Witness ==
    /\ AtCallStart
    /\ caller = "pager" /\ pg_requests = 2
    /\ prev_overloaded
    /\ max_retry_attempts = 1

\* C9: every exchange carries format=json, and the caller's map stays as it
\* was throughout the call.
C9_FormatJson ==
    /\ [](InCall => \A k \in 1..Len(sent_log) :
                        /\ "format" \in DOMAIN sent_log[k].params
                        /\ sent_log[k].params["format"] = "json")
    /\ [][(InCall /\ InCall') => caller_params' = caller_params]_vars

C9_Witness ==
    /\ InCall
    /\ caller_params = Q_fmt
    /\ Len(sent_log) = 2
    /\ sent_log[2].params["format"] = "json"
    /\ caller_params["format"] = "xml"

\* the `continue` member of the page before the request in progress
PrevContinue == IF cont_log = <<>> THEN JNull ELSE cont_log[Len(cont_log)]

\* C10: the parameters of a page request are the original query overridden by
\* the entries of the previous page's `continue` object other than
\* `continue`, a value that is no string as its JSON text, and by nothing
\* from earlier pages.
C10_ContinuationParams ==
    (InCall /\ caller = "pager") =>
        LET c == PrevContinue
            ck == IF c.t = "obj" THEN DOMAIN c.o \ {"continue"} ELSE {}
        IN /\ pg_params \in PagerQueries
           /\ DOMAIN caller_params = DOMAIN pg_params \cup ck
           /\ \A k \in DOMAIN caller_params :
                 caller_params[k] =
                     IF k \in ck
                     THEN (IF c.o[k].t = "str" THEN c.o[k].s ELSE JsonText(c.o[k]))
                     ELSE pg_params[k]
           /\ c = C_num =>
                 caller_params = [action |-> "query", list |-> "search", sroffset |-> "10"]
           /\ c = C_str =>
                 caller_params = [action |-> "query", list |-> "more",
                                  sroffset |-> "0", srcontinue |-> "b"]
           /\ c \in {JNull, C_text} => caller_params = P_search
           /\ \A k \in 1..Len(sent_log) :
                 sent_log[k].params = Insert(caller_params, "format", "json")

\* the third page request, after pages continued with C_str and then C_num
C10_Witness ==
    /\ caller = "pager" /\ pc = "Parsing"
    /\ cont_log = <<C_str, C_num>>
    /\ "srcontinue" \notin DOMAIN sent_log[1].params
    /\ sent_log[1].params["sroffset"] = "10"

\* C11: a page sequence ends with the first response without a `continue`
\* member: that response is the last page yielded and the last page request
\* made, so a first response without it leaves one page and one request,
\* whatever the ceiling; no page request follows it.
C11_EndsWithoutContinue ==
    \A i \in 1..Len(cont_log) :
        is_null(cont_log[i]) =>
            /\ i = Len(cont_log)
            /\ Len(pages) = i
            /\ pg_requests = i
            /\ caller # "pager"
            /\ values_remaining = Some(0)

\* a first page without `continue` under a ceiling it does not reach, and a
\* further pull that met the end
C11_Witness ==
    /\ ~folding
    /\ pg_max = Some(2)
    /\ cont_log = <<JNull>>
    /\ pages = <<Ok(OkBody)>>
    /\ pg_requests = 1
    /\ yielded = [kind |-> "end"]

RECURSIVE Total(_, _)
\* the running total of the counted items of the first k pages
Total(ps, k) ==
    IF k = 0 THEN 0
    ELSE Total(ps, k - 1) + (IF ps[k].ok THEN query_result_count(ps[k].v) ELSE 0)

SearchOf(v) == Idx(Idx(v, "query"), "search")

\* C12: under a ceiling N a further page is requested exactly when the page
\* before had a `continue` member and the running total of counted items is
\* below N; every request but the first was made in such a state; with N = 0
\* none is made; and a fold over continued pages of one item each returns
\* exactly N items.
C12_Ceiling ==
    (pg_pc # "none" /\ pg_max.some) =>
        LET N == pg_max.v IN
        /\ N = 0 => pg_requests = 0
        /\ \A k \in 1..(pg_requests - 1) :
              ~is_null(cont_log[k]) /\ Total(pages, k) < N
        /\ (pg_pc = "ready" /\ pages = <<>>) => (values_remaining # Some(0) <=> N > 0)
        /\ (pg_pc = "ready" /\ pages # <<>> /\ pages[Len(pages)].ok) =>
              (values_remaining # Some(0)
                   <=> /\ ~is_null(cont_log[Len(cont_log)])
                       /\ Total(pages, Len(pages)) < N)
        /\ (/\ pg_pc = "folded" /\ fold_result.ok /\ N > 0
            /\ \A i \in 1..Len(pages) :
                  /\ pages[i] = Ok(strip_continue(Page(C_num, Items1)))
                  /\ cont_log[i] = C_num)
              => /\ Len(pages) = N
                 /\ Len(SearchOf(fold_result.v).a) = N

\* ceiling 2: a page of one item, then a page of two that passes the ceiling
\* and, though it continues, is the last
C12_Witness ==
    /\ pg_max = Some(2)
    /\ pg_pc = "ready"
    /\ cont_log = <<C_num, C_str>>
    /\ Total(pages, 2) = 3
    /\ values_remaining = Some(0)
    /\ yielded = [kind |-> "end"]

HasContinue(v) == v.t = "obj" /\ "continue" \in DOMAIN v.o

\* C13: no page yielded has a `continue` key, and neither has the
\* accumulator of the fold nor the value the fold returns.
C13_NoContinueKey ==
    /\ \A i \in 1..Len(pages) : pages[i].ok => ~HasContinue(pages[i].v)
    /\ (yielded.kind = "item" /\ yielded.item.ok) => ~HasContinue(yielded.item.v)
    /\ ~HasContinue(acc)
    /\ fold_result.ok => ~HasContinue(fold_result.v)

\* a fold of two pages whose first came with a `continue` member
C13_Witness ==
    /\ pg_pc = "folded"
    /\ fold_result.ok
    /\ Len(pages) = 2
    /\ cont_log = <<C_num, JNull>>
    /\ SearchOf(fold_result.v) = JArr(<<JStr("a"), JStr("a")>>)

RECURSIVE MergedPages(_, _)
\* the left fold of json_merge over the first k pages, from Value::Null
MergedPages(ps, k) ==
    IF k = 0 THEN JNull ELSE json_merge(MergedPages(ps, k - 1), ps[k].v)

RECURSIVE ItemsOfPages(_, _)
\* the items of query.search of the first k pages, in page order
ItemsOfPages(ps, k) ==
    IF k = 0 THEN <<>>
    ELSE ItemsOfPages(ps, k - 1)
             \o (IF SearchOf(ps[k].v).t = "arr" THEN SearchOf(ps[k].v).a ELSE <<>>)

\* C14: the accumulator of the fold is the left fold of the merge over the
\* pages fetched, in fetch order, from an empty accumulator; the value
\* returned holds, once, the array that the pages hold under query.search,
\* with the items of page 1, then page 2, and so on; without a ceiling the
\* last page merged is the one without `continue`.
C14_FoldOfPages ==
    (folding /\ \A i \in 1..Len(pages) : pages[i].ok) =>
        /\ acc = MergedPages(pages, Len(pages))
        /\ (pg_pc = "folded") =>
              /\ fold_result = Ok(acc)
              /\ (\E i \in 1..Len(pages) : SearchOf(pages[i].v).t = "arr")
                    => SearchOf(fold_result.v) = JArr(ItemsOfPages(pages, Len(pages)))
              /\ (pg_max = None /\ pages # <<>>) => is_null(cont_log[Len(cont_log)])

\* three pages of one, two and one item
C14_Witness ==
    /\ pg_pc = "folded"
    /\ pg_max = None
    /\ cont_log = <<C_num, C_str, JNull>>
    /\ fold_result.ok
    /\ SearchOf(fold_result.v) = JArr(<<JStr("a"), JStr("b"), JStr("c"), JStr("a")>>)

\* C15: a page request that failed is yielded as the last item of the
\* sequence: after it no page request is made, with or without a ceiling,
\* and a further pull meets the end.
C15_ErrorEndsSequence ==
    \A i \in 1..Len(pages) :
        ~pages[i].ok =>
            /\ i = Len(pages)
            /\ pg_requests = i
            /\ caller # "pager"
            /\ pc = "Idle"
            /\ values_remaining = Some(0)
            /\ \/ yielded = [kind |-> "item", item |-> pages[i]]
               \/ yielded = [kind |-> "end"]

\* no ceiling: a page, then a failed page request, then a pull that met the end
C15_Witness ==
    /\ ~folding
    /\ pg_max = None
    /\ Len(pages) = 2
    /\ pages[1].ok /\ ~pages[2].ok
    /\ yielded = [kind |-> "end"]

\* the accumulator a caller can inspect in the value the fold returned
Visible(r) == IF r.ok THEN Some(r.v) ELSE None

FoldFailed == /\ pg_pc = "folded"
              /\ Len(pages) >= 2
              /\ ~pages[Len(pages)].ok

\* C16, as the spec states it: when a page request fails after a page was
\* merged, the value get_query_api_json_limit returns lets the caller see
\* the pages merged so far.
C16_PartialVisible ==
    FoldFailed => Visible(fold_result) = Some(MergedPages(pages, Len(pages) - 1))

\* C16, amended: when a page request fails after a page was merged,
\* get_query_api_json_limit returns the error of that request and nothing
\* else: the accumulator is dropped, no merged page is visible in the value
\* returned. The pages before the error reach only a caller of the iterator,
\* which has yielded each of them before the error.
C16_ErrorOnly ==
    /\ FoldFailed =>
          /\ fold_result = Err(pages[Len(pages)].e)
          /\ Visible(fold_result) = None
    /\ \A i \in 1..Len(pages) : i < Len(pages) => pages[i].ok
    /\ (pages # <<>> /\ ~pages[Len(pages)].ok /\ pg_pc # "folded") => ~folding

C16_Witness ==
    /\ FoldFailed
    /\ Len(pages) = 3
    /\ MergedPages(pages, 2) = JObj("query" :> JObj("search" :> JArr(<<JStr("a"), JStr("b"), JStr("c")>>)))
    /\ fold_result = Err([kind |-> "parse"])

\* C17, as the spec states it: the call that serves one pull has made exactly
\* one exchange when it returns, whatever the server answered.
C17_OneExchangePerPull ==
    (caller = "pager" /\ pc \in {"Success", "Fatal"}) => Len(sent_log) = 1

\* C17, amended: creating the sequence sends nothing; each element pulled
\* comes from exactly one page request, one call of query_api_json, which
\* makes one exchange and one more for every overload response it retried;
\* exchanges happen only within a call.
C17_OneRequestPerPull ==
    /\ [](pg_pc # "none" =>
            pg_requests = Len(pages) + (IF pg_pc \in {"calling", "panicked"} THEN 1 ELSE 0))
    /\ []((caller = "pager" /\ pc \in {"Success", "Fatal"}) =>
            /\ Len(sent_log) >= 1
            /\ Len(sent_log) = 1 + Len(sleeps))
    /\ [][(pg_pc = "none" /\ pg_pc' # "none") =>
             (pc' = "Idle" /\ sent_log' = <<>> /\ pg_requests' = 0 /\ pages' = <<>>)]_vars
    /\ [][(sent_log' # sent_log /\ sent_log' # <<>>) => pc = "Sending"]_vars

\* a pull whose page request was answered with maxlag twice before the page
C17_Witness ==
    /\ caller = "pager"
    /\ pc = "Success"
    /\ pg_requests = 1
    /\ Len(sent_log) = 3
    /\ Len(sleeps) = 2

RECURSIVE IsMergeOf(_, _, _)
\* r is what the claim says merge(a, b) is
IsMergeOf(r, a, b) ==
    IF a.t = "obj" /\ b.t = "obj"
    THEN /\ r.t = "obj"
         /\ DOMAIN r.o = DOMAIN a.o \cup DOMAIN b.o
         /\ \A k \in DOMAIN r.o :
               IF k \notin DOMAIN b.o THEN r.o[k] = a.o[k]
               ELSE IF k \notin DOMAIN a.o THEN r.o[k] = b.o[k]
               ELSE IsMergeOf(r.o[k], a.o[k], b.o[k])
    ELSE IF a.t = "arr" /\ b.t = "arr"
    THEN r.t = "arr" /\ r.a = a.a \o b.a
    ELSE r = b

\* C18: merge(a, b), by json_merge and by Mergeable::merge: for two objects
\* the union of the keys, a key of one side alone with that side's value, a
\* key of both with the merge of the two values, recursively; for two arrays
\* a's items followed by b's; for every other pair b.
C18_MergeShape ==
    mg.pc \in {"pair", "chain"} =>
        /\ IsMergeOf(mg.ab, mg.a, mg.b)
        /\ IsMergeOf(mg.ab_trait, mg.a, mg.b)

\* objects with a nested object and an array under a key of both, and a key
\* of one side alone
C18_Witness ==
    /\ mg.pc = "pair"
    /\ mg.a = JObj(("k" :> JObj("x" :> JArr(<<JNum(1)>>))) @@ ("j" :> JArr(<<JNum(1)>>)))
    /\ mg.b = JObj("k" :> JObj("x" :> JArr(<<JNum(2)>>)))
    /\ mg.ab = JObj(("k" :> JObj("x" :> JArr(<<JNum(1), JNum(2)>>)))
                    @@ ("j" :> JArr(<<JNum(1)>>)))
    /\ mg.ab_trait = mg.ab

\* C19, as the spec states it: for all JSON objects A, B, C, whatever the
\* kinds of their members, merge(merge(A, B), C) = merge(A, merge(B, C)).
C19_Associative ==
    (mg.pc = "chain" /\ mg.a.t = "obj" /\ mg.b.t = "obj" /\ mg.c.t = "obj")
        => mg.left = mg.right

Kind(v) == IF v.t \in {"obj", "arr"} THEN v.t ELSE "scalar"

RECURSIVE SameKinds(_, _)
\* a and b are of one kind, and so are the members they share, recursively
SameKinds(a, b) ==
    /\ Kind(a) = Kind(b)
    /\ a.t = "obj" => \A k \in DOMAIN a.o \cap DOMAIN b.o : SameKinds(a.o[k], b.o[k])

\* C19, amended: merge(merge(A, B), C) = merge(A, merge(B, C)) whenever A and
\* B, and B and C, hold values of the same kind (object, array, scalar) under
\* every key path they share.
C19_AssociativeSameKinds ==
    (mg.pc = "chain" /\ SameKinds(mg.a, mg.b) /\ SameKinds(mg.b, mg.c))
        => mg.left = mg.right

\* three pages with an array under k, the second with one more member
C19_Witness ==
    /\ mg.pc = "chain"
    /\ mg.a = JObj("k" :> JArr(<<JNum(1)>>))
    /\ mg.b = JObj(("k" :> JArr(<<JNum(2)>>)) @@ ("j" :> JArr(<<JNum(1)>>)))
    /\ mg.c = JObj("k" :> JArr(<<JNum(1)>>))
    /\ mg.left = JObj(("k" :> JArr(<<JNum(1), JNum(2), JNum(1)>>)) @@ ("j" :> JArr(<<JNum(1)>>)))
    /\ mg.right = mg.left

\* C20: sign_oauth_request gives equal signatures for equal inputs, and the
\* signature of a parameter set differs from that of the set with the value
\* of any one parameter changed, whatever the key of that parameter.
C20_SignatureCoversEveryParameter ==
    (sg.pc = "compared" /\ sg.sig.ok) =>
        /\ sg.sig_again = sg.sig
        /\ sg.sig_changed.ok
        /\ sg.sig_changed # sg.sig

RECURSIVE PairsOf(_, _)
\* for the encoded keys in the order given, the pair of each parameter:
\* its key encoded, =, its value encoded
PairsOf(enc_keys, to_sign) ==
    IF enc_keys = <<>> THEN <<>>
    ELSE LET k == CHOOSE x \in DOMAIN to_sign : rawurlencode(x) = Head(enc_keys)
         IN <<Head(enc_keys) \o <<"=">> \o rawurlencode(to_sign[k])>>
                \o PairsOf(Tail(enc_keys), to_sign)

\* the canonical parameter string of a set of parameters
CanonicalString(to_sign) ==
    Join(PairsOf(SortedSeq({rawurlencode(k) : k \in DOMAIN to_sign}), to_sign), <<"&">>)

\* C21: the parameter string sign_oauth_request builds holds one key=value
\* pair for every parameter of the set, key and value percent-encoded, the
\* pairs in the order of the encoded keys and joined with &, also when
\* encoding changes a key.
C21_CanonicalParams ==
    sg.pc \in {"signed", "compared"} =>
        canonical_params(sg.to_sign) = CanonicalString(sg.to_sign)

MissingSecret ==
    oauth.some /\ (~oauth.v.g_consumer_secret.some \/ ~oauth.v.g_token_secret.some)

\* C22: in the signed mode, when the consumer secret or the token secret is
\* absent, a call fails with an error value before any HTTP exchange and
\* without a retry: it never panics, never sends, never sleeps, never
\* succeeds.
C22_MissingSecretIsError ==
    (MissingSecret /\ InCall) =>
        /\ pc \in {"Sending", "Fatal"}
        /\ sent_log = <<>>
        /\ sleeps = <<>>
        /\ pc = "Fatal" => ~result.ok

\* C23: a call with a method other than GET and POST ends with an error
\* value, without an HTTP exchange and without a retry, in the signed mode as
\* in the cookie mode.
C23_UnsupportedMethodIsError ==
    (method \notin {"GET", "POST"} /\ InCall) =>
        /\ pc \in {"Sending", "Fatal"}
        /\ sent_log = <<>>
        /\ sleeps = <<>>
        /\ pc = "Fatal" => ~result.ok

\* the Authorization values of the signed requests of the call are pairwise
\* different, each carries the nonce it was signed with, and no nonce was
\* generated twice on this Api
NoHeaderReused ==
    /\ \A i, j \in 1..Len(auth_log) :
          i # j => auth_log[i].authorization # auth_log[j].authorization
    /\ \A i \in 1..Len(auth_log) :
          /\ \E k \in DOMAIN auth_log[i].authorization.parts :
                auth_log[i].authorization.parts[k] =
                    [key |-> rawurlencode(Chars("oauth_nonce")),
                     value |-> rawurlencode(auth_log[i].nonce)]
          /\ \E k \in 1..Len(nonce_log) : nonce_log[k] = auth_log[i].nonce
    /\ \A i, j \in 1..Len(nonce_log) : i # j => nonce_log[i] # nonce_log[j]

\* a step signs once exactly when it makes an exchange, and what it signs
\* carries a nonce generated in this step and the clock as it reads now
SignedOncePerExchange ==
    /\ (Len(sent_log') = Len(sent_log) + 1) <=> (Len(auth_log') = Len(auth_log) + 1)
    /\ Len(auth_log') = Len(auth_log) + 1 =>
          /\ SubSeq(auth_log', 1, Len(auth_log)) = auth_log
          /\ Len(nonce_log') = Len(nonce_log) + 1
          /\ auth_log'[Len(auth_log')].nonce = nonce_log'[Len(nonce_log')]
          /\ \A i \in 1..Len(nonce_log) :
                nonce_log[i] # auth_log'[Len(auth_log')].nonce
          /\ auth_log'[Len(auth_log')].timestamp = Chars(NatToStr(clock))

\* C24: in the signed mode the signer is invoked once for every HTTP exchange,
\* retries and pages included, each time with a newly generated nonce and the
\* timestamp read at that time, and no Authorization value is used for two
\* exchanges.
C24_SignedPerExchange == []NoHeaderReused /\ [][SignedOncePerExchange]_vars

\* a call has been retried, both exchanges signed within the same second
C24_Witness ==
    /\ Len(sent_log) = 2
    /\ Len(auth_log) = 2
    /\ sleeps # <<>>
    /\ auth_log[1].timestamp = auth_log[2].timestamp

\* the signed request of the i-th exchange of the call in progress
SignedOf(i) == auth_log[i]

\* the set ts is the parameters p and the six oauth fields of the request e,
\* and nothing else
CoversExactly(ts, p, e) ==
    /\ \A k \in DOMAIN p : Chars(k) \in DOMAIN ts /\ ts[Chars(k)] = Chars(p[k])
    /\ Cardinality(DOMAIN ts) = Cardinality(DOMAIN p) + 6
    /\ Chars("oauth_signature") \notin DOMAIN ts
    /\ ts[Chars("oauth_consumer_key")] = oauth.v.g_consumer_key.v
    /\ ts[Chars("oauth_token")] = oauth.v.g_token_key.v
    /\ ts[Chars("oauth_version")] = Chars("1.0")
    /\ ts[Chars("oauth_nonce")] = e.nonce
    /\ ts[Chars("oauth_timestamp")] = e.timestamp
    /\ ts[Chars("oauth_signature_method")] = Chars("HMAC-SHA1")

Sets(h) ==
    CASE h = SC.sid1 -> Some([name |-> "sid", value |-> "1"])
      [] h = SC.sid2 -> Some([name |-> "sid", value |-> "2"])
      [] h = SC.lang -> Some([name |-> "lang", value |-> "en"])
      [] OTHER -> None

\* the positions of the valid entries of hs that set the cookie name
Setting(hs, name) ==
    {i \in 1..Len(hs) : Sets(hs[i]).some /\ Sets(hs[i]).v.name = name}

Latest(I) == CHOOSE i \in I : \A j \in I : j <= i

CookieNames == {"sid", "lang"} \cup DOMAIN cookie_jar

\* the latest exchange belongs to a session-updating call
Captured == last_exchange.kind = "exchange" /\ mutcall

\* C26: set_cookies_from_response treats every Set-Cookie value of the
\* response on its own and in order: a value that does not parse is passed
\* over, a valid cookie replaces the stored one of its name, and of several
\* entries of one name the latest stays; a name no valid entry sets is left
\* as it was.
C26_CaptureInOrder ==
    Captured =>
        \A name \in CookieNames \cup DOMAIN last_exchange.jar :
            LET I == Setting(last_exchange.set_cookie, name) IN
            IF I = {}
            THEN /\ name \in DOMAIN cookie_jar <=> name \in DOMAIN last_exchange.jar
                 /\ name \in DOMAIN cookie_jar =>
                        cookie_jar[name] = last_exchange.jar[name]
            ELSE /\ name \in DOMAIN cookie_jar
                 /\ cookie_jar[name].name = name
                 /\ cookie_jar[name].value =
                        Sets(last_exchange.set_cookie[Latest(I)]).v.value

\* a response with unparsable values around two cookies named sid has
\* replaced the sid the jar held
C26_Witness ==
    /\ Captured
    /\ last_exchange.set_cookie = <<SC.nopair, SC.sid1, SC.bytes, SC.sid2, SC.noname>>
    /\ DOMAIN last_exchange.jar = {"sid", "lang"}
    /\ last_exchange.jar["sid"].value = "1"
    /\ cookie_jar["sid"].value = "2"
    /\ cookie_jar["lang"].value = "en"

\* C27: the Cookie header cookies_to_string renders is the pairs name=value
\* of the stored cookies, one for each cookie, joined by "; ", and nothing
\* else, whatever attributes the cookies were captured with.
C27_NameValuePairs ==
    last_exchange.kind = "exchange" =>
        \E o \in JarOrders(last_exchange.jar) :
            last_exchange.cookie =
                JoinStr([i \in DOMAIN o |->
                            last_exchange.jar[o[i]].name \o "="
                                \o last_exchange.jar[o[i]].value], "; ")

\* C28: the jar changes only in a step of a session-updating call; the calls
\* that take the Api by shared reference leave it as it is, whatever
\* Set-Cookie values their responses carry.
C28_JarOnlyBySessionCalls == [][cookie_jar' # cookie_jar => mutcall]_vars

\* a call that does not update the session has had a response with Set-Cookie
\* values, and the jar, which holds cookies, is as before
C28_Witness ==
    /\ last_exchange.kind = "exchange"
    /\ ~mutcall
    /\ Len(last_exchange.set_cookie) = 5
    /\ cookie_jar = last_exchange.jar
    /\ "sid" \in DOMAIN cookie_jar
    /\ cookie_jar["sid"].value = "1"

\* a session-updating call has ended with an error after an exchange
Aborted == pc = "Fatal" /\ Captured

\* C29, as the spec states it: when a session-updating call aborts, every
\* cookie the jar held before the failing exchange is still there with its
\* value, and an exchange that failed in the transport has changed nothing.
C29_JarKeptOnAbort ==
    Aborted =>
        /\ \A name \in DOMAIN last_exchange.jar :
              /\ name \in DOMAIN cookie_jar
              /\ cookie_jar[name].value = last_exchange.jar[name].value
        /\ received[Len(received)].kind \in {"send_err", "text_err"} =>
              cookie_jar = last_exchange.jar

\* C29, amended: every cookie the jar held before the failing exchange is
\* still there, with its value unless the response of the failing exchange set
\* a cookie of that name, which has then replaced it; an exchange that got no
\* response has changed nothing.
C29_JarKeptUnlessSetAgain ==
    Aborted =>
        /\ \A name \in DOMAIN last_exchange.jar :
              /\ name \in DOMAIN cookie_jar
              /\ Setting(last_exchange.set_cookie, name) = {} =>
                     cookie_jar[name] = last_exchange.jar[name]
        /\ received[Len(received)].kind = "send_err" => cookie_jar = last_exchange.jar

\* the second exchange of a call had a body that is no JSON and a Set-Cookie
\* for the sid the first exchange had set: lang is kept, sid is replaced
C29_Witness ==
    /\ Aborted
    /\ Len(received) = 2
    /\ received[2].kind = "text"
    /\ ~received[2].json
    /\ DOMAIN last_exchange.jar = {"sid", "lang"}
    /\ last_exchange.jar["sid"].value = "1"
    /\ cookie_jar["sid"].value = "2"
    /\ cookie_jar["lang"] = last_exchange.jar["lang"]

\* the threads inside a call that updates the session, and inside any call
InMut == {me \in Threads : bw.th[me].at \in {"mut", "capturing", "captured"}}
InAnyCall == {me \in Threads : bw.th[me].at # "idle"}

\* C30: on one Api at most one cookie-capturing call runs at a time and no
\* other call runs while it does; calls that do not touch the session may
\* overlap; and every cookie a call has captured is in the jar with the
\* value captured last, whatever the interleaving of the threads.
C30_SessionExclusive ==
    bw.pc = "threads" =>
        /\ Cardinality(InMut) <= 1
        /\ InMut # {} => InAnyCall = InMut
        /\ \A name \in DOMAIN bw.captured :
              /\ name \in DOMAIN cookie_jar
              /\ cookie_jar[name].value = bw.captured[name]

\* two threads are inside stateless calls at once, after each of them has
\* captured a cookie, and the jar holds both cookies
C30_Witness ==
    /\ bw.pc = "threads"
    /\ bw.th[1].at = "shared"
    /\ bw.th[2].at = "shared"
    /\ DOMAIN bw.captured = {"c1", "c2"}
    /\ DOMAIN cookie_jar = {"c1", "c2"}

(***************************************************************************)
(* The edit delay                                                          *)
(***************************************************************************)
\* the edit delays slept after exchange k of the call in progress
DelaysOf(k) == {i \in 1..Len(delays) : delays[i].exchange = k}

\* exchange k of the call got a response from the transport
Completed(k) == received[k].kind # "send_err"

\* exchange k of the call is a POST with a token
MutatingRequest(k) == is_edit_query(sent_log[k].params, sent_log[k].method)

\* C31, as stated: in every call, a request is followed by the edit delay
\* exactly when it is a POST with a `token` parameter and an edit delay is
\* configured; a GET, and a POST without `token`, is never followed by it.
C31_MutatingIsDelayed ==
    \A k \in 1..Len(sent_log) :
        (DelaysOf(k) # {}) <=> (MutatingRequest(k) /\ edit_delay_ms.some)

\* C31, amended: a request that the transport completed is followed by the
\* edit delay, of the configured length, exactly when it is a POST with a
\* `token` parameter and an edit delay is configured; a GET, a POST without
\* `token`, and a request whose send failed, is never followed by it.
C31_MutatingIsDelayedWhenSent ==
    \A k \in 1..Len(sent_log) :
        /\ (DelaysOf(k) # {}) <=>
               (MutatingRequest(k) /\ edit_delay_ms.some /\ Completed(k))
        /\ \A i \in DelaysOf(k) : delays[i].ms = edit_delay_ms.v

\* a POST with a token was answered with maxlag and sent again, and both
\* requests were followed by the edit delay
C31_Witness ==
    /\ edit_delay_ms = Some(EditDelayMs)
    /\ Len(sent_log) = 2
    /\ MutatingRequest(1)
    /\ MutatingRequest(2)
    /\ IsOverload(received[1])
    /\ Completed(2)
    /\ Len(delays) = 2

\* C37: in a call whose requests are mutating, with an edit delay configured,
\* the delay is slept exactly once after each exchange the transport completed
\* (whatever the response: maxlag, another error, text that is not JSON, a
\* body that cannot be read), before the backoff sleep of that exchange, and
\* not after an exchange whose send failed.
C37_DelayAfterEverySentAttempt ==
    (edit_delay_ms.some /\ Len(sent_log) > 0 /\ MutatingRequest(1)) =>
        /\ \A k \in 1..Len(sent_log) :
              /\ MutatingRequest(k)
              /\ Cardinality(DelaysOf(k)) = (IF Completed(k) THEN 1 ELSE 0)
        /\ \A i \in 1..Len(delays) :
              /\ delays[i].exchange = i
              /\ delays[i].sleeps = i - 1
              /\ delays[i].ms = edit_delay_ms.v
        /\ Len(sleeps) <= Len(delays)

\* the first attempt was answered with maxlag, the second with text that is
\* not JSON: the delay was slept after both, the first time before the backoff
C37_Witness ==
    /\ edit_delay_ms = Some(EditDelayMs)
    /\ Len(sent_log) = 2
    /\ MutatingRequest(1)
    /\ IsOverload(received[1])
    /\ received[2] = NotJson
    /\ pc = "Fatal"
    /\ Len(delays) = 2
    /\ Len(sleeps) = 1
    /\ delays[2].sleeps = 1

(***************************************************************************)
(* The budget of one call                                                  *)
(***************************************************************************)
\* the call has ended with the exhausted-retries error
Exhausted == pc = "Fatal" /\ ~result.ok /\ result.e.kind = "max_attempts"

\* C34: in any single query_api_json / query_api_json_mut call the number of
\* exchanges never exceeds max_retry_attempts + 1 and the number of backoff
\* sleeps never exceeds max_retry_attempts; the call ends with the
\* exhausted-retries error exactly when exchange number max_retry_attempts + 1
\* is answered with the overload code (with max_retry_attempts = 0: on the
\* first overload response, without a sleep).
C34_ExchangeBudget ==
    InCall =>
        /\ Len(sent_log) <= max_retry_attempts + 1
        /\ Len(sleeps) <= max_retry_attempts
        /\ pc \in {"Success", "Fatal"} =>
              (Exhausted <=>
                  /\ Len(received) = max_retry_attempts + 1
                  /\ IsOverload(received[max_retry_attempts + 1]))

\* C35: every call terminates. When each exchange returns and each sleep
\* ends, a call that has entered its loop reaches Success or Fatal, whatever
\* the server answers, having slept no more backoffs than its attempt budget.
C35_CallTerminates ==
    (pc = "Sending" /\ received = <<>>)
        ~> (pc \in {"Success", "Fatal"} /\ Len(sleeps) <= max_retry_attempts)

\* a call that used its whole budget and ended with the exhausted-retries error
C35_Witness ==
    /\ Exhausted
    /\ max_retry_attempts = 2
    /\ Len(sleeps) = 2
    /\ Len(received) = 3

(***************************************************************************)
(* The state machine of one call                                           *)
(***************************************************************************)
\* the lag check_maxlag finds in response r of the call
LagOf(r) == check_maxlag(r.v).v

\* where a call stands between its exchanges
SequentialExchanges ==
    InCall =>
        /\ pc \in {"Sending", "Parsing", "Backoff", "Success", "Fatal"}
        /\ Len(sent_log) = Len(received)
        \* every response but the last was an overload response that was
        \* retried, and was followed by one sleep of its lag
        /\ \A i \in 1..(Len(received) - 1) :
              /\ received[i].kind = "text"
              /\ received[i].json
              /\ check_maxlag(received[i].v).some
        /\ \A i \in 1..Len(sleeps) : sleeps[i] = 1000 * LagOf(received[i])
        /\ Len(sleeps) = (IF pc = "Sending" THEN Len(received)
                          ELSE IF Len(received) = 0 THEN 0 ELSE Len(received) - 1)
        /\ pc = "Backoff" => sleep_ms = 1000 * LagOf(received[Len(received)])
        /\ pc # "Backoff" => sleep_ms = 0

\* the moves of a call
CallStep ==
    /\ (InCall /\ pc' # pc) =>
          \/ pc = "Sending" /\ pc' \in {"Parsing", "Fatal"}
          \/ pc = "Parsing" /\ pc' \in {"Success", "Backoff", "Fatal"}
          \/ pc = "Backoff" /\ pc' = "Sending"
          \/ pc \in {"Success", "Fatal"} /\ pc' = "Idle"
    \* an exchange starts in Sending only, one at a time, when no sleep is
    \* in progress
    /\ (InCall /\ pc' # "Idle" /\ sent_log' # sent_log) =>
          /\ pc = "Sending"
          /\ sleep_ms = 0
          /\ Len(sent_log') = Len(sent_log) + 1
          /\ Len(sleeps) = Len(sent_log)
    \* a retried overload response adds to the cumulative lag what is slept
    /\ (pc = "Parsing" /\ pc' = "Backoff") =>
          /\ 1000 * (cumulative' - cumulative) = sleep_ms'
          /\ sleeps' = sleeps
    \* the sleep is over before the loop turns
    /\ (pc = "Backoff" /\ pc' # pc) =>
          /\ sleeps' = Append(sleeps, sleep_ms)
          /\ sent_log' = sent_log

\* C36: within one call the exchanges are sequential and follow Sending,
\* Parsing, then Success, or Backoff and Sending again, or Fatal; between an
\* overload response that is retried and the next exchange there is exactly
\* one backoff sleep, as long in seconds as the lag added to the cumulative
\* lag for that response, and the next exchange starts after the sleep ended.
C36_StateMachine == []SequentialExchanges /\ [][CallStep]_vars

\* the third exchange of a call starts after lags 1 and 3 were slept
C36_Witness ==
    /\ pc = "Parsing"
    /\ Len(sent_log) = 3
    /\ sleeps = <<1000, 3000>>
    /\ cumulative = 4

(***************************************************************************)
(* The item count of a page                                                *)
(***************************************************************************)
\* key j comes before key k when serde_json's Map is iterated
KeyBefore(j, k) == StrLess(Chars(j), Chars(k))

\* n is the length of the first array-valued member of `query`, or 0 when
\* there is none
FirstArrayLen(r, n) ==
    LET q == Idx(r, "query") IN
    IF q.t = "obj" /\ \E k \in DOMAIN q.o : q.o[k].t = "arr"
    THEN \E k \in DOMAIN q.o :
            /\ q.o[k].t = "arr"
            /\ \A j \in DOMAIN q.o : KeyBefore(j, k) => q.o[j].t # "arr"
            /\ n = Len(q.o[k].a)
    ELSE n = 0

\* C38: the item count of a page is the length of the first array-valued
\* member of its `query` object in key iteration order, and 0 when `query` is
\* absent, is no object or has no array-valued member; a page that counts 0
\* and has a `continue` member leaves the remaining ceiling as it was, so the
\* sequence ends after a page that counts 0 only if the page has no
\* `continue` member.
C38_ItemCount ==
    pf.pc = "counted" =>
        /\ FirstArrayLen(pf.result, pf.count)
        /\ pf.count = 0 =>
              IF is_null(Idx(pf.result, "continue"))
              THEN pf.values_remaining = Some(0)
              ELSE pf.values_remaining = pf.before

\* a string member, then an array of 2, then an array of 1: the count is 2,
\* and the ceiling of 2 is used up
C38_Witness ==
    /\ pf.pc = "counted"
    /\ pf.result = JObj(("query" :> JObj(("pages" :> JStr("x"))
                                        @@ ("search" :> JArr(<<JNum(1), JNum(2)>>))
                                        @@ ("searchinfo" :> JArr(<<JNum(1)>>))))
                        @@ ("continue" :> C_num))
    /\ pf.count = 2
    /\ pf.before = Some(2)
    /\ pf.values_remaining = Some(0)

(***************************************************************************)
(* Page::text                                                              *)
(***************************************************************************)
\* the slots object of the page of result r
SlotsIn(r) == r.o["query"].o["pages"].a[1].o["revisions"].a[1].o["slots"]

\* r is the result for an existing page whose slots all have text
ExistingPage(r) ==
    /\ \E sl \in {JObj(f) : f \in UNION {[K -> UNION {SlotsOf(k) : k \in K}] :
                                            K \in SUBSET SlotKeys}} :
          r = RevisionResult(sl)
    /\ DOMAIN SlotsIn(r).o # {}
    /\ \A k \in DOMAIN SlotsIn(r).o : as_str(Idx(SlotsIn(r).o[k], "content")).some

\* C33: Page::text on an existing page returns the content of the only slot
\* when the revision has one slot, the content of the slot named main when it
\* has several, and an error when it has several and none is named main.
C33_TextSlots ==
    (pf.pc = "text_done" /\ pf.result.ok /\ ExistingPage(pf.result.v)) =>
        LET sl == SlotsIn(pf.result.v).o IN
        IF Cardinality(DOMAIN sl) = 1
        THEN \A k \in DOMAIN sl : pf.ret = PageOk(sl[k].o["content"].s)
        ELSE IF "main" \in DOMAIN sl
             THEN pf.ret = PageOk(sl["main"].o["content"].s)
             ELSE pf.ret.kind = "err"

(***************************************************************************)
(* The cookies over the attempts of one call                               *)
(***************************************************************************)
\* the names and values of the cookies of a jar
NameValues(jar) == [name \in DOMAIN jar |-> jar[name].value]

\* the names and values a jar nv has after the Set-Cookie values hs: each
\* valid value sets its name, the latest of a name wins
NameValuesAfter(nv, hs) ==
    LET set == {name \in {"sid", "lang"} : Setting(hs, name) # {}}
    IN [name \in DOMAIN nv \cup set |->
           IF name \in set THEN Sets(hs[Latest(Setting(hs, name))]).v.value
           ELSE nv[name]]

\* after every exchange of a session-updating call that got a response, the
\* jar is the jar before it updated by the Set-Cookie values of the response
CapturedEveryAttempt ==
    (Captured /\ received[Len(received)].kind # "send_err") =>
        NameValues(cookie_jar) =
            NameValuesAfter(NameValues(last_exchange.jar), last_exchange.set_cookie)

\* a later attempt of a session-updating call: its Cookie header renders the
\* jar as the attempt before it left it
LaterAttempt ==
    (mutcall /\ Len(sent_log) >= 1 /\ Len(sent_log') = Len(sent_log) + 1) =>
        /\ IsOverload(received[Len(received)])
        /\ NameValues(cookie_jar) =
               NameValuesAfter(NameValues(last_exchange.jar), last_exchange.set_cookie)
        /\ last_exchange'.jar = cookie_jar
        /\ \E o \in JarOrders(cookie_jar) :
              last_exchange'.cookie = cookies_to_string(cookie_jar, o)

\* C39: in a session-updating call the cookies of every response that
\* arrived are captured, whether the response is an overload response that is
\* retried, text that is no JSON or anything else, and the Cookie header of
\* each later attempt renders the jar as updated by the attempts before it.
C39_CookiesAcrossAttempts == []CapturedEveryAttempt /\ [][LaterAttempt]_vars

\* the first attempt was answered with maxlag and set sid=1 and lang; the
\* second attempt sent them and was answered with text that is no JSON and
\* a new sid, which is in the jar
C39_Witness ==
    /\ Captured
    /\ Len(sent_log) = 2
    /\ IsOverload(received[1])
    /\ received[2] = NotJson
    /\ DOMAIN last_exchange.jar = {"sid", "lang"}
    /\ last_exchange.jar["sid"].value = "1"
    /\ last_exchange.cookie \in {"sid=1; lang=en", "lang=en; sid=1"}
    /\ last_exchange.set_cookie = <<SC.nopair, SC.sid1, SC.bytes, SC.sid2, SC.noname>>
    /\ cookie_jar["sid"].value = "2"

(***************************************************************************)
(* login                                                                   *)
(***************************************************************************)
\* the request login makes for its token, and the one it logs in with
IsTokenRequest(q) ==
    /\ q.method = "GET"
    /\ q.params = [action |-> "query", meta |-> "tokens", type |-> "login",
                   format |-> "json"]

IsLoginPost(q) ==
    /\ q.method = "POST"
    /\ q.params = [action |-> "login", lgname |-> "bot", lgpassword |-> "pw",
                   lgtoken |-> lg.token.v, format |-> "json"]

\* C40: login first completes the request for the login token and only then
\* sends the login POST, which carries the token obtained as lgtoken; when
\* the token request fails or returns no logintoken, no login POST is sent and
\* the user is as before; the login POST has no `token` parameter, carries no
\* maxlag and is not followed by the edit delay, whatever is configured; and
\* the user is changed only after a response whose login.result is Success.
C40_LoginSequence ==
    /\ lg.pc = "token" =>
          /\ \A k \in 1..Len(sent_log) : IsTokenRequest(sent_log[k])
          /\ ~lg.token.some
          /\ user = lg.user_before
    /\ lg.pc = "post" =>
          /\ lg.token = Some("lt")
          /\ \A k \in 1..Len(sent_log) :
                /\ IsLoginPost(sent_log[k])
                /\ "token" \notin DOMAIN sent_log[k].params
                /\ "maxlag" \notin DOMAIN sent_log[k].params
          /\ delays = <<>>
          /\ user = lg.user_before
    /\ (lg.pc \in {"userinfo", "done"} /\ ~lg.token.some) =>
          /\ lg.posts = 0
          /\ user = lg.user_before
          /\ ~lg.ret.ok
    /\ (lg.pc \in {"userinfo", "done"} /\ user # lg.user_before) =>
          /\ lg.posts >= 1
          /\ as_str(Idx(Idx(lg.res, "login"), "result")) = Some("Success")

\* with an edit delay and a maxlag configured, the token request was
\* answered with the token, the login POST was retried after a maxlag
\* response and answered with Success, and the user is logged in
C40_Witness ==
    /\ lg.pc = "userinfo"
    /\ edit_delay_ms = Some(EditDelayMs)
    /\ maxlag_seconds = Some(DEFAULT_MAXLAG)
    /\ lg.token = Some("lt")
    /\ lg.posts = 2
    /\ lg.user_before = NoUser
    /\ user = [logged_in |-> TRUE, lgusername |-> "bot"]

(***************************************************************************)
(* The configuration                                                       *)
(***************************************************************************)
\* the four configured values
Configuration == <<max_retry_attempts, maxlag_seconds, edit_delay_ms, oauth>>

\* the Api as new_from_builder returns it
NewApiDefaults ==
    /\ max_retry_attempts = 5
    /\ maxlag_seconds = Some(5)
    /\ edit_delay_ms = None
    /\ oauth = None

\* a step that changes a configured value is a step of its setter; it is
\* taken outside every query, login and paginated call and changes nothing
\* else
ConfigurationStep ==
    /\ max_retry_attempts' # max_retry_attempts => SetMaxRetryAttempts
    /\ maxlag_seconds' # maxlag_seconds => SetMaxlag
    /\ edit_delay_ms' # edit_delay_ms => SetEditDelay
    /\ oauth' # oauth => SetOAuth
    /\ Configuration' # Configuration =>
          /\ pc = "Idle"
          /\ pg_pc = "none"
          /\ lg.pc = "none"

\* C32: a new Api has max_retry_attempts = 5, a maxlag threshold of 5
\* seconds, no edit delay and no OAuth credentials, and these values change
\* only by set_max_retry_attempts, set_maxlag, set_edit_delay and set_oauth:
\* no query, login or paginated call changes them.
C32_Configuration == NewApiDefaults /\ [][ConfigurationStep]_vars

\* all four values were set, then a login with signed requests logged the
\* user in, and the values are as set
C32_Witness ==
    /\ max_retry_attempts = 1
    /\ maxlag_seconds = Some(2)
    /\ edit_delay_ms = Some(EditDelayMs)
    /\ oauth = Some(OAuthFull)
    /\ lg.pc = "userinfo"
    /\ lg.posts = 1
    /\ uuids = 2
    /\ user.logged_in
====
